---------------------------- MODULE Spec2Model ----------------------------
(***************************************************************************)
(* Model of the BotiBot web server's alert engine (src/server/main.py):    *)
(* the cooldown gate should_play_audio_alert, the threshold evaluation     *)
(* check_and_play_audio_alerts, the single-flight audio dispatcher         *)
(* play_audio_threaded / audio_task, and the threads that call them (the   *)
(* paho-mqtt loop thread, the main thread's startup sequence, a Flask      *)
(* request thread).  The server is checked component by component:         *)
(*   Spec        the dispatcher with every thread that calls it or the     *)
(*               audio player;                                             *)
(*   SpecAlerts  the MQTT and main threads' handlers with the cooldown     *)
(*               gate and the clock;                                       *)
(*   SpecGate    should_play_audio_alert called by two threads;            *)
(*   SpecEval    one call of check_and_play_audio_alerts per input;        *)
(*   SpecBus     on_message with the payloads of the message bus;          *)
(*   SpecConnect start_mqtt and on_connect;                                *)
(*   SpecDrop    the gate together with the steps of the workers.          *)
(* The application (src/app) is checked in the same way:                   *)
(*   SpecPoll, SpecPollFair, SpecCalls  the polling readers DataReader and *)
(*               MongoDBReader with the UI thread;                         *)
(*   SpecFile    the readers of the polled file;                           *)
(*   SpecApp     login and logout, the screens and their observers;        *)
(*   SpecConfig  BotiBotConfig.                                            *)
(*                                                                         *)
(* Numbers: sensor values and thresholds are in tenths (37.5 C is 375,     *)
(* 0.1 is 1), so that every threshold of the code is an integer.  Time is  *)
(* in seconds.                                                             *)
(***************************************************************************)
EXTENDS Integers, Sequences, FiniteSets, TLC

VARIABLES
    now,                \* the wall clock, time.time()
    last_audio_alerts,  \* main.py:44  alert_type -> time of the last stamp
    audio_lock,         \* main.py:15  the worker holding the lock, or NoWorker
    audio_playing,      \* main.py:16
    wpc,                \* worker thread -> position in audio_task
    wout,               \* worker thread -> how the action func ended
    tpc,                \* caller thread -> position
    tctx,               \* caller thread -> the handler it is in
    talert,             \* caller thread -> alert_type of the gate call
    ttime,              \* caller thread -> current_time of the gate call
    tres,               \* caller thread -> return value of the gate call
    treq,               \* caller thread -> sensor_type, value, row of the elif chain
    tfired,             \* history: alert types fired by the thread's last handler
    prevTrue,           \* history: alert_type -> time of the previous gate call of
                        \*          the type if it returned True, else Never
    wdropped,           \* history: the worker's acquire failed
    fresh,              \* history: workers issued since the last action ended
    peers,              \* history: worker -> the workers of `fresh` when it was issued
    tried,              \* history: workers that tried the lock since the last release
    sensor_data,        \* main.py:19  topic key -> the entry of the running document
    msg,                \* main.py:156 the message on_message was last called with
    rkind,              \* which polling reader of the application this is
    running,            \* data_reader.py:14, mongodb_reader.py:15  self.running
    thread,             \* data_reader.py:15, mongodb_reader.py:17  self.thread
    last_data,          \* data_reader.py:12, mongodb_reader.py:18  self.last_data
    callbacks,          \* data_reader.py:13, mongodb_reader.py:16  self.callbacks
    cpc,                \* the UI thread: position in stop_monitoring
    lpc,                \* loop thread -> position in _monitor_loop
    lcur,               \* loop thread -> current_data
    lkind,              \* loop thread -> how the read of this iteration ended
    lidx,               \* loop thread -> callbacks already taken by the for loop
    lcalled,            \* history: loop thread -> observers called in this fan-out
    lstable,            \* history: loop thread -> self.callbacks was not changed
                        \*          since this fan-out began
    observed,           \* history: a read has returned a document of the resource
    file,               \* the polled file mqtt_data.json
    last_mqtt_data,     \* screens.py:303  MainScreen.last_mqtt_data
    refreshed,          \* history: refresh_mqtt_data has run
    got_latest,         \* what _get_latest_mqtt_data returned, Unread before
    got_sensor,         \* what DataReader.get_sensor_data returned, Unread before
    current_screen,     \* botibot_main.py:40  the MainScreen shown, NoMainScreen
                        \*          while the facial recognition screen is
    made,               \* history: MainScreen objects constructed so far
    reader_callbacks,   \* reader kind -> self.callbacks, of MainScreen objects
    after_jobs,         \* MainScreen objects with a pending after(2000, ...)
    screen_doc,         \* MainScreen object -> the documents it last took: in
                        \*          its sensor cards and in its store display
    DEFAULT_CONFIG,     \* config.py:19  the dicts nested in the class attribute:
                        \*          section -> key -> value
    config,             \* config.py:69  self.config: top-level key -> value
    called              \* history: the method of BotiBotConfig called last

vars == << now, last_audio_alerts, audio_lock, audio_playing, wpc, wout,
           tpc, tctx, talert, ttime, tres, treq, tfired, prevTrue,
           wdropped, fresh, peers, tried, sensor_data, msg,
           rkind, running, thread, last_data, callbacks, cpc,
           lpc, lcur, lkind, lidx, lcalled, lstable, observed,
           file, last_mqtt_data, refreshed, got_latest, got_sensor,
           current_screen, made, reader_callbacks, after_jobs, screen_doc,
           DEFAULT_CONFIG, config, called >>

gateVars   == << talert, ttime, tres >>
workerVars == << audio_lock, audio_playing, wpc, wout, wdropped, fresh, peers, tried >>
busVars    == << sensor_data, msg >>
serverVars == << now, last_audio_alerts, tpc, tctx, treq, tfired, prevTrue >>
pollVars   == << rkind, running, thread, last_data, callbacks, cpc,
                 lpc, lcur, lkind, lidx, lcalled, lstable, observed >>
fileVars   == << file, last_mqtt_data, refreshed, got_latest, got_sensor >>
appVars    == << current_screen, made, reader_callbacks, after_jobs, screen_doc >>
configVars == << DEFAULT_CONFIG, config, called >>
loopVars   == << lpc, lcur, lkind, lidx, lcalled, lstable >>

---------------------------------------------------------------------------
(* Bounds of the model *)

StartTime  == 100   \* reading of the clock when the process starts
TickStep   == 10    \* seconds the clock advances in one Tick
MaxTime    == 130   \* the clock stops advancing here
MaxWorkers == 2     \* audio_task threads alive at once

(* Program constants *)

AUDIO_COOLDOWN   == 30
TEMP_HIGH        == 375
TEMP_LOW         == 350
BPM_HIGH         == 1000
BPM_LOW          == 600
ALCOHOL_DETECTED == 1
MOTION_THRESHOLD == 50
NORMAL_BPM_FROM  == 600
NORMAL_BPM_BELOW == 1000

AlertTypes == { "high_temp", "low_temp", "high_bpm", "low_bpm", "normal_bpm",
                "alcohol", "motion", "mqtt_connected", "system_startup" }

SensorTypes == { "temp", "bpm", "alcohol", "motion" }

Workers  == 1 .. MaxWorkers
NoWorker == 0

MqttThread == "mqtt"
MainThread == "main"
HttpThread == "http"
Callers    == { "c1", "c2" }     \* threads of the function-level harnesses
Threads    == { MqttThread, MainThread, HttpThread } \cup Callers

Outcomes == { "success", "failure", "raise" }

NoReq  == [ sensor |-> "none", present |-> FALSE, value |-> 0, row |-> 0 ]
Never  == 0 - 1

Abs(x) == IF x < 0 THEN -x ELSE x

---------------------------------------------------------------------------
(* check_and_play_audio_alerts: the rows of the if/elif chain of a sensor, *)
(* in the order of the code.  cond is the part of the condition before     *)
(* `and should_play_audio_alert(...)`.                                     *)

(* Variant: the low heart rate row excludes its bound. *)
RowsLowExclusive(sensor, v) ==
    CASE sensor = "temp" ->
           << [ cond |-> v >= TEMP_HIGH, alert |-> "high_temp", cue |-> "high_temp" ],
              [ cond |-> v <= TEMP_LOW,  alert |-> "low_temp",  cue |-> "temp_measure" ] >>
      [] sensor = "bpm" ->
           << [ cond |-> v >= BPM_HIGH, alert |-> "high_bpm", cue |-> "high_bpm" ],
              [ cond |-> v > 0 /\ v < BPM_LOW, alert |-> "low_bpm", cue |-> "normal_bpm" ],
              [ cond |-> v > 0 /\ NORMAL_BPM_FROM <= v /\ v < NORMAL_BPM_BELOW,
                alert |-> "normal_bpm", cue |-> "normal_bpm" ] >>
      [] sensor = "alcohol" ->
           << [ cond |-> v >= ALCOHOL_DETECTED, alert |-> "alcohol",
                cue |-> "alcohol_detected" ] >>
      [] sensor = "motion" ->
           << [ cond |-> Abs(v) >= MOTION_THRESHOLD, alert |-> "motion",
                cue |-> "motion" ] >>
      [] OTHER -> << >>

Rows(sensor, v) ==
    CASE sensor = "temp" ->
           << [ cond |-> v >= TEMP_HIGH, alert |-> "high_temp", cue |-> "high_temp" ],
              [ cond |-> v <= TEMP_LOW,  alert |-> "low_temp",  cue |-> "temp_measure" ] >>
      [] sensor = "bpm" ->
           << [ cond |-> v >= BPM_HIGH, alert |-> "high_bpm", cue |-> "high_bpm" ],
              [ cond |-> v > 0 /\ v <= BPM_LOW, alert |-> "low_bpm", cue |-> "normal_bpm" ],
              [ cond |-> v > 0 /\ NORMAL_BPM_FROM <= v /\ v < NORMAL_BPM_BELOW,
                alert |-> "normal_bpm", cue |-> "normal_bpm" ] >>
      [] sensor = "alcohol" ->
           << [ cond |-> v >= ALCOHOL_DETECTED, alert |-> "alcohol",
                cue |-> "alcohol_detected" ] >>
      [] sensor = "motion" ->
           << [ cond |-> Abs(v) >= MOTION_THRESHOLD, alert |-> "motion",
                cue |-> "motion" ] >>
      [] OTHER -> << >>

(* The first row at or after `from` whose cond holds, 0 when there is none: *)
(* the short-circuit `and` skips the gate call of a row whose cond is false. *)
NextRow(req, from) ==
    LET rows == Rows(req.sensor, req.value)
        hit  == { i \in from .. Len(rows) : rows[i].cond }
    IN  IF ~req.present \/ hit = {} THEN 0
        ELSE CHOOSE i \in hit : \A j \in hit : i <= j

---------------------------------------------------------------------------
(* sensor_data (main.py:19-31): the running document of the server, one     *)
(* entry per topic key.  An entry is modelled by what the handler stores    *)
(* under 'value' (in tenths), under 'status', or, for gyro and accel, by    *)
(* the fields of the object; the 'timestamp' field, which nothing in the    *)
(* server reads, is left out.                                               *)

ValueKeys == { "temp", "distance", "weight_value", "gyro_y", "gyro_z", "load",
               "bpm", "alcohol" }
VectorKeys == { "gyro", "accel" }
DocumentKeys == ValueKeys \cup VectorKeys \cup { "weight_status" }

Field(k, n, v) == [ key |-> k, numeric |-> n, val |-> v ]

(* A payload is the decoded text of the message together with what the     *)
(* two parsers of the handler make of it:                                  *)
(*   object  json.loads returns a dict, float(payload) raises ValueError;  *)
(*   number  a numeric JSON literal such as 37.6: json.loads returns a     *)
(*           number and float(payload) returns the same number;            *)
(*   plain   text such as +37.6 or .5 that float(payload) accepts and      *)
(*           json.loads rejects with JSONDecodeError;                      *)
(*   text    text that neither accepts.                                    *)
(* A field of an object is numeric when float(value) returns a number and   *)
(* raises ValueError or TypeError otherwise.                                *)

ObjectPayload(t, fs) == [ text |-> t, kind |-> "object", fields |-> fs, val |-> 0 ]
NumberPayload(t, v)  == [ text |-> t, kind |-> "number", fields |-> << >>, val |-> v ]
PlainPayload(t, v)   == [ text |-> t, kind |-> "plain", fields |-> << >>, val |-> v ]
TextPayload(t)       == [ text |-> t, kind |-> "text", fields |-> << >>, val |-> 0 ]

(* The message the handler was last called with (msg.topic, and the         *)
(* decoded msg.payload of line 159).                                        *)
NoMsg == [ topic |-> "none", payload |-> TextPayload("") ]

(* Variant: an assignment replaces the document by one that holds the new   *)
(* entry only, the other keys as at the start.                              *)
StoreWhole(doc, key, entry) ==
    [ k \in DOMAIN doc |->
        IF k = key THEN entry
        ELSE IF k \in { "gyro", "accel" }
        THEN << Field("x", TRUE, 0), Field("y", TRUE, 0), Field("z", TRUE, 0) >>
        ELSE IF k = "weight_status" THEN "unknown" ELSE 0 ]

(* sensor_data[key] = {...}: the assignment to one key of the document *)
Store(doc, key, entry) == [ doc EXCEPT ![key] = entry ]

InitialDocument ==
    [ k \in DocumentKeys |->
        IF k \in VectorKeys
        THEN << Field("x", TRUE, 0), Field("y", TRUE, 0), Field("z", TRUE, 0) >>
        ELSE IF k = "weight_status" THEN "unknown" ELSE 0 ]

---------------------------------------------------------------------------
(* The polling readers of the application: DataReader (data_reader.py),    *)
(* which polls a JSON file, and MongoDBReader (mongodb_reader.py), which    *)
(* polls the latest document of a collection.  One reader object is         *)
(* modelled; rkind says which of the two it is.                             *)

MaxLoops     == 2    \* loop threads that exist at once
MaxCallbacks == 2    \* length of self.callbacks

ReaderKinds == { "file", "store" }
LoopThreads == 1 .. MaxLoops
NoLoop      == 0
Observers   == { "o1", "o2" }

(* Documents.  A document is named by its content; None is the value None   *)
(* and EmptyDoc the dict {}.  DefaultDoc is the structure of None values    *)
(* get_sensor_data returns for a missing file (data_reader.py:35-40).       *)
None       == "None"
EmptyDoc   == "{}"
DefaultDoc == "default"
LaterA     == "a, later timestamp"      \* "a" with other values of its timestamp fields
FileDocs   == { EmptyDoc, "a", "b", LaterA }    \* what json.load can return
StoreDocs  == { "a", "b" }              \* formatted_data of get_latest_data

(* __init__ (data_reader.py:10-16, mongodb_reader.py:10-18) *)
InitialLastData(kind) == IF kind = "file" THEN EmptyDoc ELSE None

PollInit(kind) ==
    /\ rkind = kind
    /\ running = FALSE
    /\ thread = NoLoop
    /\ last_data = InitialLastData(kind)
    /\ callbacks = << >>
    /\ cpc = "idle"
    /\ lpc = [ l \in LoopThreads |-> "unborn" ]
    /\ lcur = [ l \in LoopThreads |-> None ]
    /\ lkind = [ l \in LoopThreads |-> "none" ]
    /\ lidx = [ l \in LoopThreads |-> 0 ]
    /\ lcalled = [ l \in LoopThreads |-> << >> ]
    /\ lstable = [ l \in LoopThreads |-> TRUE ]
    /\ observed = FALSE

---------------------------------------------------------------------------
(* The polled file.  Its text is a sequence of lines (split at newlines,    *)
(* stripped, empty ones left out) and a line a sequence of tokens: the two  *)
(* braces, a member of an object ("a" stands for a text such as "a": 1),    *)
(* and "x" for text that no JSON object contains.                           *)

MaxLines == 3    \* lines of the file

Unread == "unread"

FileLines ==
    { << "{", "a", "}" >>, << "{", "b", "}" >>, << "{", "}" >>,
      << "{", "a" >>, << "b", "}" >>, << "{", "a", "}", "}" >>, << "{", "x", "}" >>,
      << "{" >>, << "a" >>, << "}" >>,
      << "{", "a", "}", "{", "b" >> }

LineSeqs(n) == UNION { [ 1 .. k -> FileLines ] : k \in 0 .. n }

NoFile == [ exists |-> FALSE, lines |-> << >> ]

Files == { [ exists |-> TRUE, lines |-> ls ] : ls \in LineSeqs(MaxLines) } \cup { NoFile }

FileInit(f) ==
    /\ file = f
    /\ last_mqtt_data = None
    /\ refreshed = FALSE
    /\ got_latest = Unread
    /\ got_sensor = Unread

---------------------------------------------------------------------------
(* The screens of the application (botibot_main.py, screens.py).  The root  *)
(* window shows the facial recognition screen or a MainScreen; a MainScreen *)
(* object is named by the number of the login that constructed it.          *)

MaxLogins == 3    \* MainScreen objects constructed in a run

MainScreens  == 1 .. MaxLogins
NoMainScreen == 0

(* BotiBotApp.__init__ (botibot_main.py:30-47): the two readers with empty  *)
(* callback lists, and the facial recognition screen.                       *)
AppInit ==
    /\ current_screen = NoMainScreen
    /\ made = 0
    /\ reader_callbacks = [ kind \in ReaderKinds |-> << >> ]
    /\ after_jobs = {}
    /\ screen_doc = [ s \in MainScreens |-> [ cards |-> None, display |-> None ] ]

---------------------------------------------------------------------------
(* The configuration of the application (config.py).  DEFAULT_CONFIG is a   *)
(* dict of dicts; a value of a top-level dict is a reference to one of the  *)
(* nested dict objects, a scalar, or absent.  Scalars are named by their    *)
(* text.  Two sections and three of their keys are modelled, and one        *)
(* top-level key that DEFAULT_CONFIG does not have.                         *)

Sections == { "window", "data" }
TopKeys  == Sections \cup { "theme" }

Ref(section) == [ kind |-> "ref", at |-> section ]
Scalar(text) == [ kind |-> "val", at |-> text ]
Absent       == [ kind |-> "absent", at |-> "" ]

(* config.py:19-65, the class body *)
OriginalDefaults ==
    [ window |-> [ kiosk_mode |-> "False", width |-> "800" ],
      data   |-> [ update_interval |-> "1.0", auto_start_monitoring |-> "True" ] ]

(* The top-level dict of DEFAULT_CONFIG, which no method changes: each      *)
(* section key holds the reference to its nested dict.                      *)
DefaultTop == [ k \in TopKeys |-> IF k \in Sections THEN Ref(k) ELSE Absent ]

(* dict.copy() (config.py:69, 182): a new top-level dict with the values of *)
(* the old one, so that a section key holds the reference to the same       *)
(* nested dict.                                                             *)
ShallowCopy(top) == top

(* __init__ (config.py:67-70) with no configuration file *)
ConfigInit ==
    /\ DEFAULT_CONFIG = OriginalDefaults
    /\ config = ShallowCopy(DefaultTop)
    /\ called = "init"

---------------------------------------------------------------------------
(* Initial state: the module-level assignments of main.py *)

InitServerAt(start) ==
    /\ now = StartTime
    /\ last_audio_alerts = [ k \in AlertTypes |-> 0 ]
    /\ audio_lock = NoWorker
    /\ audio_playing = FALSE
    /\ wpc = [ w \in Workers |-> "free" ]
    /\ wout = [ w \in Workers |-> "none" ]
    /\ tpc = [ t \in Threads |-> IF t = MainThread THEN "boot"
                                 ELSE IF t = MqttThread THEN start ELSE "idle" ]
    /\ tctx = [ t \in Threads |-> "none" ]
    /\ talert = [ t \in Threads |-> "none" ]
    /\ ttime = [ t \in Threads |-> 0 ]
    /\ tres = [ t \in Threads |-> FALSE ]
    /\ treq = [ t \in Threads |-> NoReq ]
    /\ tfired = [ t \in Threads |-> {} ]
    /\ prevTrue = [ k \in AlertTypes |-> Never ]
    /\ wdropped = [ w \in Workers |-> FALSE ]
    /\ fresh = {}
    /\ peers = [ w \in Workers |-> {} ]
    /\ tried = {}
    /\ sensor_data = InitialDocument
    /\ msg = NoMsg

(* The MQTT thread in the loop of the client, connected *)
InitServer == InitServerAt("idle")

Init == InitServer /\ PollInit("file") /\ FileInit(NoFile) /\ AppInit /\ ConfigInit

(* The clock: time.time() never goes backwards. *)
Tick ==
    /\ now < MaxTime
    /\ now' = now + TickStep
    /\ UNCHANGED << last_audio_alerts, tpc, tctx, treq, tfired, prevTrue >>
    /\ UNCHANGED gateVars
    /\ UNCHANGED workerVars
    /\ UNCHANGED busVars
    /\ UNCHANGED pollVars
    /\ UNCHANGED fileVars
    /\ UNCHANGED appVars
    /\ UNCHANGED configVars

Ready(t) == tpc[t] \in { "idle", "returned" }

---------------------------------------------------------------------------
(* should_play_audio_alert (main.py:67-73), one action per shared access *)

(* line 69: current_time = time.time() *)
GateTime(t) ==
    /\ tpc[t] = "gate_time"
    /\ ttime' = [ ttime EXCEPT ![t] = now ]
    /\ tpc' = [ tpc EXCEPT ![t] = "gate_check" ]
    /\ UNCHANGED << now, last_audio_alerts, tctx, talert, tres, treq, tfired, prevTrue >>
    /\ UNCHANGED workerVars
    /\ UNCHANGED busVars
    /\ UNCHANGED pollVars
    /\ UNCHANGED fileVars
    /\ UNCHANGED appVars
    /\ UNCHANGED configVars

(* Variant: the comparison is > where the code has >=. *)
GateCheckStrict(t) ==
    /\ tpc[t] = "gate_check"
    /\ IF ttime[t] - last_audio_alerts[talert[t]] > AUDIO_COOLDOWN
       THEN /\ tpc' = [ tpc EXCEPT ![t] = "gate_write" ]
            /\ UNCHANGED tres
       ELSE /\ tpc' = [ tpc EXCEPT ![t] = "gate_ret" ]
            /\ tres' = [ tres EXCEPT ![t] = FALSE ]
    /\ UNCHANGED << now, last_audio_alerts, tctx, talert, ttime, treq, tfired, prevTrue >>
    /\ UNCHANGED workerVars
    /\ UNCHANGED busVars
    /\ UNCHANGED pollVars
    /\ UNCHANGED fileVars
    /\ UNCHANGED appVars
    /\ UNCHANGED configVars

(* line 70: the read of last_audio_alerts and the comparison; line 73 *)
GateCheck(t) ==
    /\ tpc[t] = "gate_check"
    /\ IF ttime[t] - last_audio_alerts[talert[t]] >= AUDIO_COOLDOWN
       THEN /\ tpc' = [ tpc EXCEPT ![t] = "gate_write" ]
            /\ UNCHANGED tres
       ELSE /\ tpc' = [ tpc EXCEPT ![t] = "gate_ret" ]
            /\ tres' = [ tres EXCEPT ![t] = FALSE ]
    /\ UNCHANGED << now, last_audio_alerts, tctx, talert, ttime, treq, tfired, prevTrue >>
    /\ UNCHANGED workerVars
    /\ UNCHANGED busVars
    /\ UNCHANGED pollVars
    /\ UNCHANGED fileVars
    /\ UNCHANGED appVars
    /\ UNCHANGED configVars

(* Variant: the stamp replaces the whole table by one with this entry only. *)
GateWriteResets(t) ==
    /\ tpc[t] = "gate_write"
    /\ last_audio_alerts' = [ k \in AlertTypes |-> IF k = talert[t] THEN ttime[t] ELSE 0 ]
    /\ tres' = [ tres EXCEPT ![t] = TRUE ]
    /\ tpc' = [ tpc EXCEPT ![t] = "gate_ret" ]
    /\ UNCHANGED << now, tctx, talert, ttime, treq, tfired, prevTrue >>
    /\ UNCHANGED workerVars
    /\ UNCHANGED busVars
    /\ UNCHANGED pollVars
    /\ UNCHANGED fileVars
    /\ UNCHANGED appVars
    /\ UNCHANGED configVars

(* lines 71-72: the stamp, and return True *)
GateWrite(t) ==
    /\ tpc[t] = "gate_write"
    /\ last_audio_alerts' = [ last_audio_alerts EXCEPT ![talert[t]] = ttime[t] ]
    /\ tres' = [ tres EXCEPT ![t] = TRUE ]
    /\ tpc' = [ tpc EXCEPT ![t] = "gate_ret" ]
    /\ UNCHANGED << now, tctx, talert, ttime, treq, tfired, prevTrue >>
    /\ UNCHANGED workerVars
    /\ UNCHANGED busVars
    /\ UNCHANGED pollVars
    /\ UNCHANGED fileVars
    /\ UNCHANGED appVars
    /\ UNCHANGED configVars

(* The gate call of thread t has returned to its caller: the call is        *)
(* recorded and its locals are gone.                                        *)
GateReturned(t) ==
    /\ prevTrue' = [ prevTrue EXCEPT ![talert[t]] = IF tres[t] THEN ttime[t] ELSE Never ]
    /\ talert' = [ talert EXCEPT ![t] = "none" ]
    /\ ttime' = [ ttime EXCEPT ![t] = 0 ]
    /\ tres' = [ tres EXCEPT ![t] = FALSE ]

---------------------------------------------------------------------------
(* play_audio_threaded (main.py:75-99) *)

FreeWorkers == { w \in Workers : wpc[w] = "free" }

(* Caller threads inside a handler that may still start one worker. *)
BusyCallers ==
    { t \in Threads : tpc[t] \in { "eval_entry", "gate_time", "gate_check",
                                   "gate_write", "gate_ret", "dispatch" } }

(* The pool of worker threads is bounded: a handler begins only when a      *)
(* worker is left for it.                                                   *)
CanBegin == Cardinality(FreeWorkers) > Cardinality(BusyCallers)

(* Where the caller goes on after play_audio_threaded returned. *)
AfterDispatch(ctx) ==
    CASE ctx = "startup"  -> "sleep"
      [] ctx = "announce" -> "serving"
      [] ctx = "start_failed" -> "ended"
      [] OTHER            -> "returned"

(* Variant: the caller itself waits until the lock is free before it starts *)
(* the thread.                                                              *)
PlayAudioThreadedWaits(t) ==
    /\ tpc[t] = "dispatch"
    /\ audio_lock = NoWorker
    /\ FreeWorkers # {}
    /\ LET w == CHOOSE x \in FreeWorkers : \A y \in FreeWorkers : x <= y
       IN  /\ wpc' = [ wpc EXCEPT ![w] = "spawned" ]
           /\ peers' = [ peers EXCEPT ![w] = fresh ]
           /\ fresh' = fresh \cup { w }
    /\ tpc' = [ tpc EXCEPT ![t] = AfterDispatch(tctx[t]) ]
    /\ UNCHANGED << now, last_audio_alerts, audio_lock, audio_playing, wout, wdropped,
                    tried, tctx, treq, tfired, prevTrue >>
    /\ UNCHANGED gateVars
    /\ UNCHANGED busVars
    /\ UNCHANGED pollVars
    /\ UNCHANGED fileVars
    /\ UNCHANGED appVars
    /\ UNCHANGED configVars

(* lines 98-99: the thread is created and started; the caller goes on. *)
PlayAudioThreaded(t) ==
    /\ tpc[t] = "dispatch"
    /\ FreeWorkers # {}
    /\ LET w == CHOOSE x \in FreeWorkers : \A y \in FreeWorkers : x <= y
       IN  /\ wpc' = [ wpc EXCEPT ![w] = "spawned" ]
           /\ peers' = [ peers EXCEPT ![w] = fresh ]
           /\ fresh' = fresh \cup { w }
    /\ tpc' = [ tpc EXCEPT ![t] = AfterDispatch(tctx[t]) ]
    /\ UNCHANGED << now, last_audio_alerts, audio_lock, audio_playing, wout, wdropped,
                    tried, tctx, treq, tfired, prevTrue >>
    /\ UNCHANGED gateVars
    /\ UNCHANGED busVars
    /\ UNCHANGED pollVars
    /\ UNCHANGED fileVars
    /\ UNCHANGED appVars
    /\ UNCHANGED configVars

(* Variant: the return of a failed acquire passes through the finally       *)
(* block, which clears audio_playing and releases the lock.                 *)
WorkerAcquireFailsIntoFinally(w) ==
    /\ wpc[w] = "spawned"
    /\ IF audio_lock = NoWorker
       THEN /\ audio_lock' = w
            /\ wpc' = [ wpc EXCEPT ![w] = "locked" ]
            /\ UNCHANGED wdropped
       ELSE /\ wpc' = [ wpc EXCEPT ![w] = "finally" ]
            /\ wdropped' = [ wdropped EXCEPT ![w] = TRUE ]
            /\ UNCHANGED audio_lock
    /\ tried' = tried \cup { w }
    /\ UNCHANGED << now, last_audio_alerts, audio_playing, wout, fresh, peers,
                    tpc, tctx, treq, tfired, prevTrue >>
    /\ UNCHANGED gateVars
    /\ UNCHANGED busVars
    /\ UNCHANGED pollVars
    /\ UNCHANGED fileVars
    /\ UNCHANGED appVars
    /\ UNCHANGED configVars

(* Variant: the result of acquire is not tested, the worker goes on anyway. *)
WorkerAcquireUntested(w) ==
    /\ wpc[w] = "spawned"
    /\ audio_lock' = IF audio_lock = NoWorker THEN w ELSE audio_lock
    /\ wpc' = [ wpc EXCEPT ![w] = "locked" ]
    /\ tried' = tried \cup { w }
    /\ UNCHANGED << now, last_audio_alerts, audio_playing, wout, wdropped, fresh, peers,
                    tpc, tctx, treq, tfired, prevTrue >>
    /\ UNCHANGED gateVars
    /\ UNCHANGED busVars
    /\ UNCHANGED pollVars
    /\ UNCHANGED fileVars
    /\ UNCHANGED appVars
    /\ UNCHANGED configVars

(* lines 83-85: audio_lock.acquire(blocking=False), and the return when it fails *)
WorkerAcquire(w) ==
    /\ wpc[w] = "spawned"
    /\ IF audio_lock = NoWorker
       THEN /\ audio_lock' = w
            /\ wpc' = [ wpc EXCEPT ![w] = "locked" ]
            /\ UNCHANGED wdropped
       ELSE /\ wpc' = [ wpc EXCEPT ![w] = "skipped" ]
            /\ wdropped' = [ wdropped EXCEPT ![w] = TRUE ]
            /\ UNCHANGED audio_lock
    /\ tried' = tried \cup { w }
    /\ UNCHANGED << now, last_audio_alerts, audio_playing, wout, fresh, peers,
                    tpc, tctx, treq, tfired, prevTrue >>
    /\ UNCHANGED gateVars
    /\ UNCHANGED busVars
    /\ UNCHANGED pollVars
    /\ UNCHANGED fileVars
    /\ UNCHANGED appVars
    /\ UNCHANGED configVars

(* lines 88-89: audio_playing = True, and the action func is entered *)
WorkerBegin(w) ==
    /\ wpc[w] = "locked"
    /\ audio_playing' = TRUE
    /\ wpc' = [ wpc EXCEPT ![w] = "playing" ]
    /\ UNCHANGED << now, last_audio_alerts, audio_lock, wout, wdropped, fresh,
                    peers, tried, tpc, tctx, treq, tfired, prevTrue >>
    /\ UNCHANGED gateVars
    /\ UNCHANGED busVars
    /\ UNCHANGED pollVars
    /\ UNCHANGED fileVars
    /\ UNCHANGED appVars
    /\ UNCHANGED configVars

(* Variant: no finally block; an exception of the action ends audio_task    *)
(* before the lines that clear audio_playing and release the lock.          *)
WorkerActionNoFinally(w, o) ==
    /\ wpc[w] = "playing"
    /\ wout' = [ wout EXCEPT ![w] = o ]
    /\ wpc' = [ wpc EXCEPT ![w] = IF o = "raise" THEN "done" ELSE "finally" ]
    /\ fresh' = {}
    /\ UNCHANGED << now, last_audio_alerts, audio_lock, audio_playing, wdropped,
                    peers, tried, tpc, tctx, treq, tfired, prevTrue >>
    /\ UNCHANGED gateVars
    /\ UNCHANGED busVars
    /\ UNCHANGED pollVars
    /\ UNCHANGED fileVars
    /\ UNCHANGED appVars
    /\ UNCHANGED configVars

(* lines 89-93: the action func returns True, returns a false value or      *)
(* raises; the failure is printed, the exception is caught and printed, and *)
(* each of the three ways leads into the finally block.                     *)
WorkerAction(w, o) ==
    /\ wpc[w] = "playing"
    /\ wout' = [ wout EXCEPT ![w] = o ]
    /\ wpc' = [ wpc EXCEPT ![w] = "finally" ]
    /\ fresh' = {}
    /\ UNCHANGED << now, last_audio_alerts, audio_lock, audio_playing, wdropped,
                    peers, tried, tpc, tctx, treq, tfired, prevTrue >>
    /\ UNCHANGED gateVars
    /\ UNCHANGED busVars
    /\ UNCHANGED pollVars
    /\ UNCHANGED fileVars
    /\ UNCHANGED appVars
    /\ UNCHANGED configVars

(* line 95: finally: audio_playing = False *)
WorkerFinally(w) ==
    /\ wpc[w] = "finally"
    /\ audio_playing' = FALSE
    /\ wpc' = [ wpc EXCEPT ![w] = "release" ]
    /\ UNCHANGED << now, last_audio_alerts, audio_lock, wout, wdropped, fresh,
                    peers, tried, tpc, tctx, treq, tfired, prevTrue >>
    /\ UNCHANGED gateVars
    /\ UNCHANGED busVars
    /\ UNCHANGED pollVars
    /\ UNCHANGED fileVars
    /\ UNCHANGED appVars
    /\ UNCHANGED configVars

(* line 96: audio_lock.release(); audio_task ends *)
WorkerRelease(w) ==
    /\ wpc[w] = "release"
    /\ audio_lock' = NoWorker
    /\ wpc' = [ wpc EXCEPT ![w] = "done" ]
    /\ tried' = {}
    /\ UNCHANGED << now, last_audio_alerts, audio_playing, wout, wdropped, fresh,
                    peers, tpc, tctx, treq, tfired, prevTrue >>
    /\ UNCHANGED gateVars
    /\ UNCHANGED busVars
    /\ UNCHANGED pollVars
    /\ UNCHANGED fileVars
    /\ UNCHANGED appVars
    /\ UNCHANGED configVars

(* The history of a worker thread that is gone. *)
Forget(w) ==
    /\ wpc' = [ wpc EXCEPT ![w] = "free" ]
    /\ wout' = [ wout EXCEPT ![w] = "none" ]
    /\ wdropped' = [ wdropped EXCEPT ![w] = FALSE ]
    /\ fresh' = fresh \ { w }
    /\ tried' = tried \ { w }
    /\ peers' = [ u \in Workers |-> IF u = w THEN {} ELSE peers[u] \ { w } ]

(* The daemon thread whose audio_task returned is gone (line 98). *)
WorkerExit(w) ==
    /\ wpc[w] \in { "done", "skipped" }
    /\ Forget(w)
    /\ UNCHANGED << now, last_audio_alerts, audio_lock, audio_playing,
                    tpc, tctx, treq, tfired, prevTrue >>
    /\ UNCHANGED gateVars
    /\ UNCHANGED busVars
    /\ UNCHANGED pollVars
    /\ UNCHANGED fileVars
    /\ UNCHANGED appVars
    /\ UNCHANGED configVars

(* audio_task (lines 79-96) run from its first line to its last with no     *)
(* other worker in between: the lock is free, is taken and is released.     *)
(* Used where only the callers are looked at.                               *)
AudioTask(w) ==
    /\ wpc[w] = "spawned"
    /\ audio_lock = NoWorker
    /\ Forget(w)
    /\ UNCHANGED << now, last_audio_alerts, audio_lock, audio_playing,
                    tpc, tctx, treq, tfired, prevTrue >>
    /\ UNCHANGED gateVars
    /\ UNCHANGED busVars
    /\ UNCHANGED pollVars
    /\ UNCHANGED fileVars
    /\ UNCHANGED appVars
    /\ UNCHANGED configVars

---------------------------------------------------------------------------
(* check_and_play_audio_alerts (main.py:101-135) *)

(* lines 104-130: the conditions up to the first gate call *)
CheckAndPlayEntry(t) ==
    /\ tpc[t] = "eval_entry"
    /\ LET r == NextRow(treq[t], 1)
       IN  IF r = 0
           THEN /\ tpc' = [ tpc EXCEPT ![t] = "returned" ]
                /\ UNCHANGED << treq, talert >>
           ELSE /\ tpc' = [ tpc EXCEPT ![t] = "gate_time" ]
                /\ treq' = [ treq EXCEPT ![t].row = r ]
                /\ talert' = [ talert EXCEPT ![t] =
                                 Rows(treq[t].sensor, treq[t].value)[r].alert ]
    /\ UNCHANGED << now, last_audio_alerts, tctx, ttime, tres, tfired, prevTrue >>
    /\ UNCHANGED workerVars
    /\ UNCHANGED busVars
    /\ UNCHANGED pollVars
    /\ UNCHANGED fileVars
    /\ UNCHANGED appVars
    /\ UNCHANGED configVars

(* The gate call of a row has returned: True enters the row's body (the     *)
(* play_audio_threaded call), False falls through to the next elif whose    *)
(* condition holds and calls the gate for it.                               *)
EvalAfterGate(t) ==
    /\ tpc[t] = "gate_ret"
    /\ tctx[t] = "eval"
    /\ prevTrue' = [ prevTrue EXCEPT ![talert[t]] = IF tres[t] THEN ttime[t] ELSE Never ]
    /\ ttime' = [ ttime EXCEPT ![t] = 0 ]
    /\ tres' = [ tres EXCEPT ![t] = FALSE ]
    /\ IF tres[t]
       THEN /\ tfired' = [ tfired EXCEPT ![t] = @ \cup { talert[t] } ]
            /\ tpc' = [ tpc EXCEPT ![t] = "dispatch" ]
            /\ talert' = [ talert EXCEPT ![t] = "none" ]
            /\ UNCHANGED treq
       ELSE LET r == NextRow(treq[t], treq[t].row + 1)
            IN  /\ IF r = 0
                   THEN /\ tpc' = [ tpc EXCEPT ![t] = "returned" ]
                        /\ talert' = [ talert EXCEPT ![t] = "none" ]
                        /\ UNCHANGED treq
                   ELSE /\ tpc' = [ tpc EXCEPT ![t] = "gate_time" ]
                        /\ treq' = [ treq EXCEPT ![t].row = r ]
                        /\ talert' = [ talert EXCEPT ![t] =
                                         Rows(treq[t].sensor, treq[t].value)[r].alert ]
                /\ UNCHANGED tfired
    /\ UNCHANGED << now, last_audio_alerts, tctx >>
    /\ UNCHANGED workerVars
    /\ UNCHANGED busVars
    /\ UNCHANGED pollVars
    /\ UNCHANGED fileVars
    /\ UNCHANGED appVars
    /\ UNCHANGED configVars

---------------------------------------------------------------------------
(* The paho-mqtt loop thread: on_message and on_connect *)

(* Readings that arrive on the sensor topics (tenths): a heart rate on the  *)
(* border of the low and the normal row, and one that matches no row.       *)
Readings == { << "bpm", 600 >>, << "bpm", 0 >> }

(* on_message (main.py:156-249) for a payload that float accepts on a topic *)
(* whose value is evaluated (lines 223-226): the reading is stored and      *)
(* check_and_play_audio_alerts is called with it.                           *)
OnMessage(reading) ==
    /\ Ready(MqttThread)
    /\ CanBegin
    /\ treq' = [ treq EXCEPT ![MqttThread] =
                   [ sensor |-> reading[1], present |-> TRUE, value |-> reading[2],
                     row |-> 0 ] ]
    /\ tctx' = [ tctx EXCEPT ![MqttThread] = "eval" ]
    /\ tfired' = [ tfired EXCEPT ![MqttThread] = {} ]
    /\ tpc' = [ tpc EXCEPT ![MqttThread] = "eval_entry" ]
    /\ sensor_data' = Store(sensor_data, reading[1], reading[2])
    /\ msg' = [ topic |-> reading[1], payload |-> PlainPayload("reading", reading[2]) ]
    /\ UNCHANGED << now, last_audio_alerts, prevTrue >>
    /\ UNCHANGED gateVars
    /\ UNCHANGED workerVars
    /\ UNCHANGED pollVars
    /\ UNCHANGED fileVars
    /\ UNCHANGED appVars
    /\ UNCHANGED configVars

(* on_connect (main.py:137-149): rc = 0 asks the gate, any other rc plays   *)
(* the error sound without asking it.                                       *)
OnConnect(rc) ==
    /\ Ready(MqttThread)
    /\ CanBegin
    /\ tctx' = [ tctx EXCEPT ![MqttThread] = "connect" ]
    /\ tfired' = [ tfired EXCEPT ![MqttThread] = {} ]
    /\ treq' = [ treq EXCEPT ![MqttThread] = NoReq ]
    /\ IF rc = 0
       THEN /\ talert' = [ talert EXCEPT ![MqttThread] = "mqtt_connected" ]
            /\ tpc' = [ tpc EXCEPT ![MqttThread] = "gate_time" ]
       ELSE /\ tpc' = [ tpc EXCEPT ![MqttThread] = "dispatch" ]
            /\ UNCHANGED talert
    /\ UNCHANGED << now, last_audio_alerts, ttime, tres, prevTrue >>
    /\ UNCHANGED workerVars
    /\ UNCHANGED busVars
    /\ UNCHANGED pollVars
    /\ UNCHANGED fileVars
    /\ UNCHANGED appVars
    /\ UNCHANGED configVars

(* on_connect, lines 143-144 and 151-154 *)
ConnectAfterGate ==
    /\ tpc[MqttThread] = "gate_ret"
    /\ tctx[MqttThread] = "connect"
    /\ GateReturned(MqttThread)
    /\ IF tres[MqttThread]
       THEN /\ tfired' = [ tfired EXCEPT ![MqttThread] = @ \cup { talert[MqttThread] } ]
            /\ tpc' = [ tpc EXCEPT ![MqttThread] = "dispatch" ]
       ELSE /\ tpc' = [ tpc EXCEPT ![MqttThread] = "returned" ]
            /\ UNCHANGED tfired
    /\ UNCHANGED << now, last_audio_alerts, tctx, treq >>
    /\ UNCHANGED workerVars
    /\ UNCHANGED busVars
    /\ UNCHANGED pollVars
    /\ UNCHANGED fileVars
    /\ UNCHANGED appVars
    /\ UNCHANGED configVars

(* A handler of the MQTT thread, seen from the dispatcher only: on_message  *)
(* (through check_and_play_audio_alerts) or on_connect has come to one of   *)
(* its play_audio_threaded calls (lines 106-131, 144, 149).                 *)
MqttAlert ==
    /\ Ready(MqttThread)
    /\ CanBegin
    /\ tctx' = [ tctx EXCEPT ![MqttThread] = "alert" ]
    /\ tpc' = [ tpc EXCEPT ![MqttThread] = "dispatch" ]
    /\ UNCHANGED << now, last_audio_alerts, treq, tfired, prevTrue >>
    /\ UNCHANGED gateVars
    /\ UNCHANGED workerVars
    /\ UNCHANGED busVars
    /\ UNCHANGED pollVars
    /\ UNCHANGED fileVars
    /\ UNCHANGED appVars
    /\ UNCHANGED configVars

(* start_mqtt (main.py:364-372), the target of the MQTT thread: connect      *)
(* returns and loop_forever is entered, or connect raises and the except    *)
(* clause dispatches the error sound, after which start_mqtt returns and    *)
(* the thread ends.                                                         *)
StartMqtt(reached) ==
    /\ tpc[MqttThread] = "start"
    /\ CanBegin
    /\ tctx' = [ tctx EXCEPT ![MqttThread] = IF reached THEN "loop" ELSE "start_failed" ]
    /\ tpc' = [ tpc EXCEPT ![MqttThread] = IF reached THEN "idle" ELSE "dispatch" ]
    /\ UNCHANGED << now, last_audio_alerts, treq, tfired, prevTrue >>
    /\ UNCHANGED gateVars
    /\ UNCHANGED workerVars
    /\ UNCHANGED busVars
    /\ UNCHANGED pollVars
    /\ UNCHANGED fileVars
    /\ UNCHANGED appVars
    /\ UNCHANGED configVars

---------------------------------------------------------------------------
(* The main thread (main.py:374-390) *)

(* Variant: the startup sound shares the slot of the connection sound. *)
StartupAlertShared == "mqtt_connected"

StartupAlert == "system_startup"

(* line 382: the gate call of the startup sound *)
MainStartup ==
    /\ tpc[MainThread] = "boot"
    /\ CanBegin
    /\ tctx' = [ tctx EXCEPT ![MainThread] = "startup" ]
    /\ talert' = [ talert EXCEPT ![MainThread] = StartupAlert ]
    /\ tpc' = [ tpc EXCEPT ![MainThread] = "gate_time" ]
    /\ UNCHANGED << now, last_audio_alerts, ttime, tres, treq, tfired, prevTrue >>
    /\ UNCHANGED workerVars
    /\ UNCHANGED busVars
    /\ UNCHANGED pollVars
    /\ UNCHANGED fileVars
    /\ UNCHANGED appVars
    /\ UNCHANGED configVars

(* lines 382-383 *)
StartupAfterGate ==
    /\ tpc[MainThread] = "gate_ret"
    /\ tctx[MainThread] = "startup"
    /\ GateReturned(MainThread)
    /\ IF tres[MainThread]
       THEN /\ tfired' = [ tfired EXCEPT ![MainThread] = @ \cup { talert[MainThread] } ]
            /\ tpc' = [ tpc EXCEPT ![MainThread] = "dispatch" ]
       ELSE /\ tpc' = [ tpc EXCEPT ![MainThread] = "sleep" ]
            /\ UNCHANGED tfired
    /\ UNCHANGED << now, last_audio_alerts, tctx, treq >>
    /\ UNCHANGED workerVars
    /\ UNCHANGED busVars
    /\ UNCHANGED pollVars
    /\ UNCHANGED fileVars
    /\ UNCHANGED appVars
    /\ UNCHANGED configVars

(* lines 386-387: after the sleep, the second sound is dispatched ungated;  *)
(* line 390, app.run, follows it.                                           *)
MainAnnounce ==
    /\ tpc[MainThread] = "sleep"
    /\ CanBegin
    /\ tctx' = [ tctx EXCEPT ![MainThread] = "announce" ]
    /\ tpc' = [ tpc EXCEPT ![MainThread] = "dispatch" ]
    /\ UNCHANGED << now, last_audio_alerts, treq, tfired, prevTrue >>
    /\ UNCHANGED gateVars
    /\ UNCHANGED workerVars
    /\ UNCHANGED busVars
    /\ UNCHANGED pollVars
    /\ UNCHANGED fileVars
    /\ UNCHANGED appVars
    /\ UNCHANGED configVars

---------------------------------------------------------------------------
(* A Flask request thread; requests are served once app.run is reached. *)

(* control_servo, control_stepper (main.py:271-304): press_button, or the   *)
(* error sound when the request body raised.                                *)
HttpControl ==
    /\ Ready(HttpThread)
    /\ tpc[MainThread] = "serving"
    /\ CanBegin
    /\ tctx' = [ tctx EXCEPT ![HttpThread] = "control" ]
    /\ tpc' = [ tpc EXCEPT ![HttpThread] = "dispatch" ]
    /\ UNCHANGED << now, last_audio_alerts, treq, tfired, prevTrue >>
    /\ UNCHANGED gateVars
    /\ UNCHANGED workerVars
    /\ UNCHANGED busVars
    /\ UNCHANGED pollVars
    /\ UNCHANGED fileVars
    /\ UNCHANGED appVars
    /\ UNCHANGED configVars

(* test_audio (main.py:306-324): the audio player is called in the request  *)
(* thread itself, with no use of audio_lock.                                *)
HttpTestAudio ==
    /\ Ready(HttpThread)
    /\ tpc[MainThread] = "serving"
    /\ tctx' = [ tctx EXCEPT ![HttpThread] = "test" ]
    /\ tpc' = [ tpc EXCEPT ![HttpThread] = "testing" ]
    /\ UNCHANGED << now, last_audio_alerts, treq, tfired, prevTrue >>
    /\ UNCHANGED gateVars
    /\ UNCHANGED workerVars
    /\ UNCHANGED busVars
    /\ UNCHANGED pollVars
    /\ UNCHANGED fileVars
    /\ UNCHANGED appVars
    /\ UNCHANGED configVars

(* test_audio, lines 326-332: the player returned or raised; a response is sent *)
HttpTestAudioEnd ==
    /\ tpc[HttpThread] = "testing"
    /\ tpc' = [ tpc EXCEPT ![HttpThread] = "returned" ]
    /\ UNCHANGED << now, last_audio_alerts, tctx, treq, tfired, prevTrue >>
    /\ UNCHANGED gateVars
    /\ UNCHANGED workerVars
    /\ UNCHANGED busVars
    /\ UNCHANGED pollVars
    /\ UNCHANGED fileVars
    /\ UNCHANGED appVars
    /\ UNCHANGED configVars

---------------------------------------------------------------------------
(* The dispatcher and every thread that calls it or the audio player *)

Next ==
    \/ MqttAlert
    \/ MainStartup
    \/ GateTime(MainThread)
    \/ GateCheck(MainThread)
    \/ GateWrite(MainThread)
    \/ StartupAfterGate
    \/ MainAnnounce
    \/ HttpControl
    \/ HttpTestAudio
    \/ HttpTestAudioEnd
    \/ \E t \in { MqttThread, MainThread, HttpThread } : PlayAudioThreaded(t)
    \/ \E w \in Workers :
          \/ WorkerAcquire(w)
          \/ WorkerBegin(w)
          \/ \E o \in Outcomes : WorkerAction(w, o)
          \/ WorkerFinally(w)
          \/ WorkerRelease(w)
          \/ WorkerExit(w)

Spec == Init /\ [][Next]_vars

---------------------------------------------------------------------------
(* The handlers of the MQTT thread and of the main thread with the gate and *)
(* the clock; a started audio_task runs as one step.                        *)

NextAlerts ==
    \/ Tick
    \/ \E r \in Readings : OnMessage(r)
    \/ \E rc \in { 0, 1 } : OnConnect(rc)
    \/ ConnectAfterGate
    \/ CheckAndPlayEntry(MqttThread)
    \/ EvalAfterGate(MqttThread)
    \/ MainStartup
    \/ StartupAfterGate
    \/ MainAnnounce
    \/ \E t \in { MqttThread, MainThread } :
          \/ GateTime(t)
          \/ GateCheck(t)
          \/ GateWrite(t)
          \/ PlayAudioThreaded(t)
    \/ \E w \in Workers : AudioTask(w)

SpecAlerts == Init /\ [][NextAlerts]_vars

---------------------------------------------------------------------------
(* The MQTT thread from its start: start_mqtt, and in the loop of the       *)
(* client the calls of on_connect, one for every connection attempt that    *)
(* the broker answers; the clock advances.                                  *)

InitConnect == InitServerAt("start") /\ PollInit("file") /\ FileInit(NoFile) /\ AppInit /\ ConfigInit

NextConnect ==
    \/ Tick
    \/ \E reached \in BOOLEAN : StartMqtt(reached)
    \/ \E rc \in { 0, 1 } : OnConnect(rc)
    \/ ConnectAfterGate
    \/ GateTime(MqttThread)
    \/ GateCheck(MqttThread)
    \/ GateWrite(MqttThread)
    \/ PlayAudioThreaded(MqttThread)
    \/ \E w \in Workers : AudioTask(w)

SpecConnect == InitConnect /\ [][NextConnect]_vars

---------------------------------------------------------------------------
(* The handlers of the MQTT thread with the cooldown gate, the dispatcher   *)
(* and the steps of every audio_task thread, at one reading of the clock.   *)

NextDrop ==
    \/ \E r \in Readings : OnMessage(r)
    \/ \E rc \in { 0, 1 } : OnConnect(rc)
    \/ ConnectAfterGate
    \/ CheckAndPlayEntry(MqttThread)
    \/ EvalAfterGate(MqttThread)
    \/ GateTime(MqttThread)
    \/ GateCheck(MqttThread)
    \/ GateWrite(MqttThread)
    \/ PlayAudioThreaded(MqttThread)
    \/ \E w \in Workers :
          \/ WorkerAcquire(w)
          \/ WorkerBegin(w)
          \/ \E o \in Outcomes : WorkerAction(w, o)
          \/ WorkerFinally(w)
          \/ WorkerRelease(w)
          \/ WorkerExit(w)

SpecDrop == Init /\ [][NextDrop]_vars

---------------------------------------------------------------------------
(* should_play_audio_alert called by two threads, for any alert type of     *)
(* GateKinds at any time.                                                   *)

GateKinds == { "high_temp", "motion" }

(* A thread calls should_play_audio_alert(k) (main.py:67). *)
GateCall(c, k) ==
    /\ Ready(c)
    /\ tctx' = [ tctx EXCEPT ![c] = "gate" ]
    /\ talert' = [ talert EXCEPT ![c] = k ]
    /\ tpc' = [ tpc EXCEPT ![c] = "gate_time" ]
    /\ UNCHANGED << now, last_audio_alerts, ttime, tres, treq, tfired, prevTrue >>
    /\ UNCHANGED workerVars
    /\ UNCHANGED busVars
    /\ UNCHANGED pollVars
    /\ UNCHANGED fileVars
    /\ UNCHANGED appVars
    /\ UNCHANGED configVars

(* The caller has the return value (main.py:72-73). *)
GateCallReturns(c) ==
    /\ tpc[c] = "gate_ret"
    /\ tctx[c] = "gate"
    /\ GateReturned(c)
    /\ tpc' = [ tpc EXCEPT ![c] = "returned" ]
    /\ UNCHANGED << now, last_audio_alerts, tctx, treq, tfired >>
    /\ UNCHANGED workerVars
    /\ UNCHANGED busVars
    /\ UNCHANGED pollVars
    /\ UNCHANGED fileVars
    /\ UNCHANGED appVars
    /\ UNCHANGED configVars

NextGate ==
    \/ Tick
    \/ \E c \in Callers :
          \/ \E k \in GateKinds : GateCall(c, k)
          \/ GateTime(c)
          \/ GateCheck(c)
          \/ GateWrite(c)
          \/ GateCallReturns(c)

SpecGate == Init /\ [][NextGate]_vars

---------------------------------------------------------------------------
(* One call of check_and_play_audio_alerts(sensor_type, value) from the     *)
(* initial state of the server, for every input of a bounded range.         *)

EvalSpan == 5    \* values are taken this far (in tenths) around each threshold

EvalCaller == "c1"

Around(x) == (x - EvalSpan) .. (x + EvalSpan)

EvalValues(sensor) ==
    CASE sensor = "temp"    -> (TEMP_LOW - EvalSpan) .. (TEMP_HIGH + EvalSpan)
      [] sensor = "bpm"     -> Around(0) \cup Around(BPM_LOW) \cup Around(BPM_HIGH)
                                 \cup { 450, 720, 1300 }
      [] sensor = "alcohol" -> Around(0)
      [] sensor = "motion"  -> Around(0 - MOTION_THRESHOLD) \cup Around(0)
                                 \cup Around(MOTION_THRESHOLD)
      [] OTHER              -> Around(0)

(* sensor_type is one of the four the function knows or another string;     *)
(* value is a number or None (present = FALSE).                             *)
EvalInputs ==
    UNION { { [ sensor |-> s, present |-> TRUE, value |-> v, row |-> 0 ] :
                v \in EvalValues(s) } : s \in SensorTypes \cup { "distance" } } \cup
    { [ sensor |-> s, present |-> FALSE, value |-> 0, row |-> 0 ] :
        s \in SensorTypes \cup { "distance" } }

InitEval ==
    /\ now = StartTime
    /\ last_audio_alerts = [ k \in AlertTypes |-> 0 ]
    /\ audio_lock = NoWorker
    /\ audio_playing = FALSE
    /\ wpc = [ w \in Workers |-> "free" ]
    /\ wout = [ w \in Workers |-> "none" ]
    /\ tpc = [ t \in Threads |-> IF t = MainThread THEN "boot"
                                 ELSE IF t = EvalCaller THEN "eval_entry" ELSE "idle" ]
    /\ tctx = [ t \in Threads |-> IF t = EvalCaller THEN "eval" ELSE "none" ]
    /\ talert = [ t \in Threads |-> "none" ]
    /\ ttime = [ t \in Threads |-> 0 ]
    /\ tres = [ t \in Threads |-> FALSE ]
    /\ \E i \in EvalInputs :
          treq = [ t \in Threads |-> IF t = EvalCaller THEN i ELSE NoReq ]
    /\ tfired = [ t \in Threads |-> {} ]
    /\ prevTrue = [ k \in AlertTypes |-> Never ]
    /\ wdropped = [ w \in Workers |-> FALSE ]
    /\ fresh = {}
    /\ peers = [ w \in Workers |-> {} ]
    /\ tried = {}
    /\ sensor_data = InitialDocument
    /\ msg = NoMsg
    /\ PollInit("file")
    /\ FileInit(NoFile)
    /\ AppInit
    /\ ConfigInit

NextEval ==
    \/ CheckAndPlayEntry(EvalCaller)
    \/ GateTime(EvalCaller)
    \/ GateCheck(EvalCaller)
    \/ GateWrite(EvalCaller)
    \/ EvalAfterGate(EvalCaller)
    \/ PlayAudioThreaded(EvalCaller)

SpecEval == InitEval /\ [][NextEval]_vars

---------------------------------------------------------------------------
(* on_message (main.py:156-249) with the payload as it arrives             *)

(* How a step of the handler ends: with a value, with an exception that     *)
(* leaves to the except clause of line 248, or with neither.                *)
Got(v, b) == [ ok |-> TRUE, value |-> v, branch |-> b, raised |-> FALSE ]
Raised    == [ ok |-> FALSE, value |-> 0, branch |-> "none", raised |-> TRUE ]
Nothing   == [ ok |-> FALSE, value |-> 0, branch |-> "none", raised |-> FALSE ]

(* json.loads(payload) does not raise JSONDecodeError *)
JsonLoads(p) == p.kind \in { "object", "number" }

(* float(payload) *)
FloatOfPayload(p, b) == IF p.kind \in { "number", "plain" } THEN Got(p.val, b) ELSE Raised

(* float(data[key]) *)
FloatOfField(f, b) == IF f.numeric THEN Got(f.val, b) ELSE Raised

(* key in data, for a dict *)
HasKey(fs, k) == \E i \in 1 .. Len(fs) : fs[i].key = k

(* data[key] *)
Get(fs, k) == fs[CHOOSE i \in 1 .. Len(fs) : fs[i].key = k]

(* Variant: a dict without a numeric field gives the value 0. *)
FirstNumericOrZero(fs) ==
    LET hit == { i \in 1 .. Len(fs) : fs[i].numeric }
    IN  IF hit = {} THEN Got(0, "fallback")
        ELSE Got(fs[CHOOSE i \in hit : \A j \in hit : i <= j].val, "fallback")

(* lines 193-200: the loop over the items of the dict, in the order of the  *)
(* object; it ends at the first value float accepts, and ends without a     *)
(* value when there is none.                                                *)
FirstNumeric(fs) ==
    LET hit == { i \in 1 .. Len(fs) : fs[i].numeric }
    IN  IF hit = {} THEN Nothing
        ELSE Got(fs[CHOOSE i \in hit : \A j \in hit : i <= j].val, "fallback")

(* lines 179-210: the temp topic *)
NormalizeTemp(p) ==
    IF ~JsonLoads(p) THEN FloatOfPayload(p, "scalar")            \* 206-208
    ELSE IF p.kind # "object" THEN Got(p.val, "scalar")          \* 201-203
    ELSE IF HasKey(p.fields, "temp")                             \* 183-184
         THEN FloatOfField(Get(p.fields, "temp"), "canonical")
    ELSE IF HasKey(p.fields, "temperature")                      \* 187-188
         THEN FloatOfField(Get(p.fields, "temperature"), "canonical")
    ELSE FirstNumeric(p.fields)                                  \* 191-200

(* lines 229-246: the alcohol topic.  `'alcohol_level' in alcohol_data`     *)
(* raises TypeError when json.loads returned a number; with neither key in  *)
(* the dict the text of the whole payload is given to float.                *)
NormalizeAlcohol(p) ==
    IF ~JsonLoads(p) THEN FloatOfPayload(p, "scalar")            \* 243-244
    ELSE IF p.kind # "object" THEN Raised                        \* 231
    ELSE IF HasKey(p.fields, "alcohol_level")                    \* 231-232
         THEN FloatOfField(Get(p.fields, "alcohol_level"), "canonical")
    ELSE IF HasKey(p.fields, "alcohol")                          \* 235-236
         THEN FloatOfField(Get(p.fields, "alcohol"), "canonical")
    ELSE FloatOfPayload(p, "scalar")                             \* 239-240

(* Largest m with m * m <= n *)
ISqrt(n) == CHOOSE m \in 0 .. n : m * m <= n /\ (m + 1) * (m + 1) > n

(* lines 168 and 175: (x**2 + y**2 + z**2)**0.5 in tenths, rounded down;    *)
(* the comparison with the threshold, a whole number of tenths, is the same *)
(* before and after the rounding.                                           *)
Magnitude(fs) ==
    ISqrt(Get(fs, "x").val * Get(fs, "x").val + Get(fs, "y").val * Get(fs, "y").val
          + Get(fs, "z").val * Get(fs, "z").val)

(* What one call of on_message does: store is whether an entry of           *)
(* sensor_data is assigned and entry what is assigned; eval is whether      *)
(* check_and_play_audio_alerts(sensor, value) is called; raised is whether  *)
(* the call ends in the except clause of lines 248-249.                     *)
Handled(s, e, ev, sn, v, r) ==
    [ store |-> s, entry |-> e, eval |-> ev, sensor |-> sn, value |-> v, raised |-> r ]

Dropped(r) == Handled(FALSE, 0, FALSE, "none", 0, r)

(* lines 164-169 and 171-176 *)
HandleVector(p) ==
    IF p.kind # "object" THEN Dropped(TRUE)
    ELSE IF ~(HasKey(p.fields, "x") /\ HasKey(p.fields, "y") /\ HasKey(p.fields, "z"))
         THEN Handled(TRUE, p.fields, FALSE, "none", 0, FALSE)
    ELSE IF ~(Get(p.fields, "x").numeric /\ Get(p.fields, "y").numeric
                /\ Get(p.fields, "z").numeric)
         THEN Handled(TRUE, p.fields, FALSE, "none", 0, TRUE)
    ELSE Handled(TRUE, p.fields, TRUE, "motion", Magnitude(p.fields), FALSE)

(* A topic whose value is stored and evaluated: lines 185-186, 189-190,     *)
(* 196-197, 204-205, 209-210, 224-226, 233-234, 237-238, 241-242, 245-246   *)
HandleEvaluated(sensor, n) ==
    IF n.ok THEN Handled(TRUE, n.value, TRUE, sensor, n.value, FALSE)
    ELSE Dropped(n.raised)

(* lines 212, 214, 218, 220, 222 *)
HandleStored(n) ==
    IF n.ok THEN Handled(TRUE, n.value, FALSE, "none", 0, FALSE)
    ELSE Dropped(n.raised)

(* The if/elif chain over the topic, lines 163-246.  A topic is named by    *)
(* its key in TOPICS.                                                       *)
Handle(topic, p) ==
    CASE topic \in VectorKeys -> HandleVector(p)
      [] topic = "temp" -> HandleEvaluated("temp", NormalizeTemp(p))
      [] topic \in { "distance", "weight_value", "gyro_y", "gyro_z", "load" } ->
           HandleStored(FloatOfPayload(p, "scalar"))
      [] topic = "weight_status" -> Handled(TRUE, p.text, FALSE, "none", 0, FALSE)
      [] topic = "bpm" -> HandleEvaluated("bpm", FloatOfPayload(p, "scalar"))
      [] topic = "alcohol" -> HandleEvaluated("alcohol", NormalizeAlcohol(p))
      [] OTHER -> Dropped(FALSE)

(* Variant: no except clause around the body of the handler; an exception   *)
(* leaves on_message and ends the loop of the client thread.                *)
AfterHandlerEscapes(h) ==
    IF h.raised THEN "crashed" ELSE IF h.eval THEN "eval_entry" ELSE "returned"

(* Where the thread is after the body of the handler: in the evaluator, or  *)
(* back in the client loop, also when the body raised (lines 248-249).      *)
AfterHandler(h) == IF h.eval THEN "eval_entry" ELSE "returned"

(* on_message: the call up to the call of check_and_play_audio_alerts, or   *)
(* up to its end when nothing is evaluated.                                 *)
OnMessagePayload(topic, p) ==
    /\ Ready(MqttThread)
    /\ CanBegin
    /\ msg' = [ topic |-> topic, payload |-> p ]
    /\ LET h == Handle(topic, p)
       IN  /\ sensor_data' = IF h.store THEN Store(sensor_data, topic, h.entry)
                             ELSE sensor_data
           /\ treq' = [ treq EXCEPT ![MqttThread] =
                          IF h.eval
                          THEN [ sensor |-> h.sensor, present |-> TRUE,
                                 value |-> h.value, row |-> 0 ]
                          ELSE NoReq ]
           /\ tctx' = [ tctx EXCEPT ![MqttThread] = IF h.eval THEN "eval" ELSE "message" ]
           /\ tpc' = [ tpc EXCEPT ![MqttThread] = AfterHandler(h) ]
    /\ tfired' = [ tfired EXCEPT ![MqttThread] = {} ]
    /\ UNCHANGED << now, last_audio_alerts, prevTrue >>
    /\ UNCHANGED gateVars
    /\ UNCHANGED workerVars
    /\ UNCHANGED pollVars
    /\ UNCHANGED fileVars
    /\ UNCHANGED appVars
    /\ UNCHANGED configVars

(* Messages of the bus: on the temp topic an object with a recognised key   *)
(* after another numeric field, one with both recognised keys, one with a   *)
(* recognised key that is not a number, one with unrecognised keys only,    *)
(* one with no numeric field, a numeric literal, text float accepts and     *)
(* text it does not; on the alcohol topic the same shapes; the other        *)
(* topics with one payload each.                                            *)
TempPayloads ==
    { ObjectPayload("{\"humidity\": 55.0, \"temp\": 37.6}",
                    << Field("humidity", TRUE, 550), Field("temp", TRUE, 376) >>),
      ObjectPayload("{\"temperature\": 37.6, \"temp\": 38.0}",
                    << Field("temperature", TRUE, 376), Field("temp", TRUE, 380) >>),
      ObjectPayload("{\"humidity\": 55.0, \"temp\": \"n/a\"}",
                    << Field("humidity", TRUE, 550), Field("temp", FALSE, 0) >>),
      ObjectPayload("{\"unit\": \"C\", \"reading\": 38.0, \"humidity\": 55.0}",
                    << Field("unit", FALSE, 0), Field("reading", TRUE, 380),
                       Field("humidity", TRUE, 550) >>),
      ObjectPayload("{\"unit\": \"C\"}", << Field("unit", FALSE, 0) >>),
      NumberPayload("37.6", 376),
      PlainPayload("+37.6", 376),
      TextPayload("n/a") }

AlcoholPayloads ==
    { ObjectPayload("{\"ppm\": 3.0, \"alcohol_level\": 0.5}",
                    << Field("ppm", TRUE, 30), Field("alcohol_level", TRUE, 5) >>),
      ObjectPayload("{\"alcohol\": 0.5}", << Field("alcohol", TRUE, 5) >>),
      ObjectPayload("{\"ppm\": 3.0}", << Field("ppm", TRUE, 30) >>),
      ObjectPayload("{\"unit\": \"%\"}", << Field("unit", FALSE, 0) >>),
      NumberPayload("0.5", 5),
      PlainPayload(".5", 5),
      TextPayload("n/a") }

Messages ==
    { << "temp", p >> : p \in TempPayloads } \cup
    { << "alcohol", p >> : p \in AlcoholPayloads } \cup
    { << "distance", NumberPayload("12.0", 120) >>,
      << "weight_status", TextPayload("stable") >>,
      << "gyro", ObjectPayload("{\"x\": 0.3, \"y\": 0.4, \"z\": 0.0}",
                               << Field("x", TRUE, 3), Field("y", TRUE, 4),
                                  Field("z", TRUE, 0) >>) >>,
      << "botibot/unknown", NumberPayload("1.0", 10) >> }

(* The MQTT thread alone: messages arrive one after the other (the client   *)
(* loop calls on_message from one thread), the evaluation of each runs to   *)
(* its end, and the clock advances.                                         *)
NextBus ==
    \/ Tick
    \/ \E m \in Messages : OnMessagePayload(m[1], m[2])
    \/ CheckAndPlayEntry(MqttThread)
    \/ GateTime(MqttThread)
    \/ GateCheck(MqttThread)
    \/ GateWrite(MqttThread)
    \/ EvalAfterGate(MqttThread)
    \/ PlayAudioThreaded(MqttThread)
    \/ \E w \in Workers : AudioTask(w)

SpecBus == Init /\ [][NextBus]_vars

---------------------------------------------------------------------------
(* The polling readers: _monitor_loop, start_monitoring, stop_monitoring,   *)
(* add_callback and remove_callback                                         *)

(* How a read can end.  DataReader.get_sensor_data (data_reader.py:27-43):  *)
(*   doc          json.load returned a document;                            *)
(*   parse_error  json.load raised JSONDecodeError;                         *)
(*   vanished     open raised FileNotFoundError after os.path.exists;       *)
(*   missing      os.path.exists returned False;                            *)
(*   io_error     open or read raised another exception, which the except  *)
(*                clause of line 41 does not catch.                         *)
(* MongoDBReader.get_latest_data (mongodb_reader.py:36-71):                 *)
(*   doc          find_one returned a document, which is formatted;         *)
(*   empty_result find_one returned None;                                   *)
(*   query_error  find_one raised.                                          *)
ReadOutcomes(kind) ==
    IF kind = "file"
    THEN { "doc", "parse_error", "vanished", "missing", "io_error" }
    ELSE { "doc", "empty_result", "query_error" }

ReadDocs(kind) == IF kind = "file" THEN FileDocs ELSE StoreDocs

(* Variant: a read that fails to parse returns the default structure. *)
ReadResultDefault(kind, k, d, last) ==
    CASE k = "doc" -> d
      [] k \in { "parse_error", "missing" } -> DefaultDoc
      [] k = "vanished" -> last
      [] OTHER -> None

(* What get_sensor_data / get_latest_data returns; `last` is self.last_data *)
(* (data_reader.py:43).                                                     *)
ReadResult(kind, k, d, last) ==
    CASE k = "doc" -> d
      [] k \in { "parse_error", "vanished" } -> last
      [] k = "missing" -> DefaultDoc
      [] OTHER -> None

(* A document without its timestamp fields *)
Content(d) == IF d = LaterA THEN "a" ELSE d

(* bool(current_data) *)
Truthy(d) == d \notin { None, EmptyDoc }

(* data_reader.py:92 `current_data != self.last_data`, mongodb_reader.py:169 *)
(* `current_data and current_data != self.last_data`                        *)
Changed(kind, cur, last) ==
    IF kind = "file" THEN cur # last ELSE Truthy(cur) /\ cur # last

LiveLoops == { l \in LoopThreads : lpc[l] \notin { "unborn", "done" } }

(* while self.running: (data_reader.py:89, mongodb_reader.py:165) *)
LoopTest(l) ==
    /\ lpc[l] = "test"
    /\ lpc' = [ lpc EXCEPT ![l] = IF running THEN "read" ELSE "done" ]
    /\ UNCHANGED << rkind, running, thread, last_data, callbacks, cpc, observed >>
    /\ UNCHANGED << lcur, lkind, lidx, lcalled, lstable >>
    /\ UNCHANGED << serverVars, gateVars, workerVars, busVars >>
    /\ UNCHANGED fileVars
    /\ UNCHANGED appVars
    /\ UNCHANGED configVars

(* data_reader.py:91, mongodb_reader.py:167: the read.  An exception that   *)
(* leaves it enters the except clause of the loop (data_reader.py:102-104,  *)
(* mongodb_reader.py:181-183), which sleeps.                                *)
LoopRead(l, k, d) ==
    /\ lpc[l] = "read"
    /\ lkind' = [ lkind EXCEPT ![l] = k ]
    /\ lcur' = [ lcur EXCEPT ![l] = ReadResult(rkind, k, d, last_data) ]
    /\ lpc' = [ lpc EXCEPT ![l] = IF k = "io_error" THEN "sleep" ELSE "compare" ]
    /\ UNCHANGED << rkind, running, thread, last_data, callbacks, cpc, observed >>
    /\ UNCHANGED << lidx, lcalled, lstable >>
    /\ UNCHANGED << serverVars, gateVars, workerVars, busVars >>
    /\ UNCHANGED fileVars
    /\ UNCHANGED appVars
    /\ UNCHANGED configVars

(* Variant: the fan-out begins with self.last_data still the old document;  *)
(* the assignment is left to the end of the iteration.                      *)
LoopCompareLate(l) ==
    /\ lpc[l] = "compare"
    /\ observed' = (observed \/ lkind[l] = "doc")
    /\ IF Changed(rkind, lcur[l], last_data)
       THEN /\ lpc' = [ lpc EXCEPT ![l] = "fanout" ]
            /\ lstable' = [ lstable EXCEPT ![l] = TRUE ]
       ELSE /\ lpc' = [ lpc EXCEPT ![l] = "sleep" ]
            /\ UNCHANGED lstable
    /\ UNCHANGED << rkind, running, thread, last_data, callbacks, cpc >>
    /\ UNCHANGED << lcur, lkind, lidx, lcalled >>
    /\ UNCHANGED << serverVars, gateVars, workerVars, busVars >>
    /\ UNCHANGED fileVars
    /\ UNCHANGED appVars
    /\ UNCHANGED configVars

(* data_reader.py:92-93, mongodb_reader.py:169-170: the comparison and the  *)
(* assignment of self.last_data                                             *)
LoopCompare(l) ==
    /\ lpc[l] = "compare"
    /\ observed' = (observed \/ lkind[l] = "doc")
    /\ IF Changed(rkind, lcur[l], last_data)
       THEN /\ last_data' = lcur[l]
            /\ lpc' = [ lpc EXCEPT ![l] = "fanout" ]
            /\ lstable' = [ lstable EXCEPT ![l] = TRUE ]
       ELSE /\ lpc' = [ lpc EXCEPT ![l] = "sleep" ]
            /\ UNCHANGED << last_data, lstable >>
    /\ UNCHANGED << rkind, running, thread, callbacks, cpc >>
    /\ UNCHANGED << lcur, lkind, lidx, lcalled >>
    /\ UNCHANGED << serverVars, gateVars, workerVars, busVars >>
    /\ UNCHANGED fileVars
    /\ UNCHANGED appVars
    /\ UNCHANGED configVars

(* Variant: an exception of a callback leaves the for loop and is caught    *)
(* by the except clause of the while loop.                                  *)
AfterCallbackEscapes(o) == IF o = "raise" THEN "sleep" ELSE "fanout"

(* data_reader.py:96-99, mongodb_reader.py:174-177: the try around the call *)
(* catches the exception of a callback; the for loop goes on.               *)
AfterCallback(o) == "fanout"

(* data_reader.py:95-99, mongodb_reader.py:173-177: the for loop takes the  *)
(* next element of self.callbacks and calls it; o is how the callback ends. *)
LoopCallback(l, o) ==
    /\ lpc[l] = "fanout"
    /\ lidx[l] < Len(callbacks)
    /\ lcalled' = [ lcalled EXCEPT ![l] =
                      Append(@, [ obs |-> callbacks[lidx[l] + 1], doc |-> lcur[l],
                                  raised |-> (o = "raise") ]) ]
    /\ lidx' = [ lidx EXCEPT ![l] = @ + 1 ]
    /\ lpc' = [ lpc EXCEPT ![l] = AfterCallback(o) ]
    /\ UNCHANGED << rkind, running, thread, last_data, callbacks, cpc, observed >>
    /\ UNCHANGED << lcur, lkind, lstable >>
    /\ UNCHANGED << serverVars, gateVars, workerVars, busVars >>
    /\ UNCHANGED fileVars
    /\ UNCHANGED appVars
    /\ UNCHANGED configVars

(* The for loop finds no further element. *)
LoopFanoutEnd(l) ==
    /\ lpc[l] = "fanout"
    /\ lidx[l] >= Len(callbacks)
    /\ lpc' = [ lpc EXCEPT ![l] = "sleep" ]
    /\ UNCHANGED << rkind, running, thread, last_data, callbacks, cpc, observed >>
    /\ UNCHANGED << lcur, lkind, lidx, lcalled, lstable >>
    /\ UNCHANGED << serverVars, gateVars, workerVars, busVars >>
    /\ UNCHANGED fileVars
    /\ UNCHANGED appVars
    /\ UNCHANGED configVars

(* time.sleep (data_reader.py:101 and 104, mongodb_reader.py:179 and 183);  *)
(* the locals of the iteration are gone after it.                           *)
LoopSleep(l) ==
    /\ lpc[l] = "sleep"
    /\ lpc' = [ lpc EXCEPT ![l] = "test" ]
    /\ lcur' = [ lcur EXCEPT ![l] = None ]
    /\ lkind' = [ lkind EXCEPT ![l] = "none" ]
    /\ lidx' = [ lidx EXCEPT ![l] = 0 ]
    /\ lcalled' = [ lcalled EXCEPT ![l] = << >> ]
    /\ lstable' = [ lstable EXCEPT ![l] = TRUE ]
    /\ UNCHANGED << rkind, running, thread, last_data, callbacks, cpc, observed >>
    /\ UNCHANGED << serverVars, gateVars, workerVars, busVars >>
    /\ UNCHANGED fileVars
    /\ UNCHANGED appVars
    /\ UNCHANGED configVars

LoopStep(l) ==
    \/ LoopTest(l)
    \/ \E k \in ReadOutcomes(rkind), d \in ReadDocs(rkind) : LoopRead(l, k, d)
    \/ LoopCompare(l)
    \/ \E o \in { "return", "raise" } : LoopCallback(l, o)
    \/ LoopFanoutEnd(l)
    \/ LoopSleep(l)

(* The UI thread *)

(* add_callback (data_reader.py:18-20, mongodb_reader.py:140-142) *)
AddCallback(o) ==
    /\ cpc = "idle"
    /\ Len(callbacks) < MaxCallbacks
    /\ callbacks' = Append(callbacks, o)
    /\ lstable' = [ l \in LoopThreads |-> FALSE ]
    /\ UNCHANGED << rkind, running, thread, last_data, cpc, observed >>
    /\ UNCHANGED << lpc, lcur, lkind, lidx, lcalled >>
    /\ UNCHANGED << serverVars, gateVars, workerVars, busVars >>
    /\ UNCHANGED fileVars
    /\ UNCHANGED appVars
    /\ UNCHANGED configVars

(* list.remove: the list without the first element equal to o *)
Without(seq, o) ==
    LET i == CHOOSE j \in 1 .. Len(seq) : seq[j] = o /\ \A h \in 1 .. (j - 1) : seq[h] # o
    IN  SubSeq(seq, 1, i - 1) \o SubSeq(seq, i + 1, Len(seq))

(* remove_callback (data_reader.py:22-25); MongoDBReader has none. *)
RemoveCallback(o) ==
    /\ cpc = "idle"
    /\ rkind = "file"
    /\ \E j \in 1 .. Len(callbacks) : callbacks[j] = o
    /\ callbacks' = Without(callbacks, o)
    /\ lstable' = [ l \in LoopThreads |-> FALSE ]
    /\ UNCHANGED << rkind, running, thread, last_data, cpc, observed >>
    /\ UNCHANGED << lpc, lcur, lkind, lidx, lcalled >>
    /\ UNCHANGED << serverVars, gateVars, workerVars, busVars >>
    /\ UNCHANGED fileVars
    /\ UNCHANGED appVars
    /\ UNCHANGED configVars

(* A thread object that is not running: one never started or one that ended *)
SpareLoops == { l \in LoopThreads : lpc[l] \in { "unborn", "done" } }

(* threading.Thread(target=self._monitor_loop) and start() *)
Spawn ==
    /\ SpareLoops # {}
    /\ LET l == CHOOSE x \in SpareLoops : \A y \in SpareLoops : x <= y
       IN  /\ thread' = l
           /\ lpc' = [ lpc EXCEPT ![l] = "test" ]
    /\ running' = TRUE

(* start_monitoring.  DataReader (data_reader.py:74-79) does nothing when   *)
(* self.running is set.  MongoDBReader (mongodb_reader.py:144-153) returns  *)
(* False when connect fails and has no test of self.running.                *)
StartMonitoring(connected) ==
    /\ cpc = "idle"
    /\ IF rkind = "file"
       THEN IF running THEN UNCHANGED << running, thread, lpc >> ELSE Spawn
       ELSE IF connected THEN Spawn ELSE UNCHANGED << running, thread, lpc >>
    /\ UNCHANGED << rkind, last_data, callbacks, cpc, observed >>
    /\ UNCHANGED << lcur, lkind, lidx, lcalled, lstable >>
    /\ UNCHANGED << serverVars, gateVars, workerVars, busVars >>
    /\ UNCHANGED fileVars
    /\ UNCHANGED appVars
    /\ UNCHANGED configVars

(* stop_monitoring (data_reader.py:81-85, mongodb_reader.py:155-159):       *)
(* self.running = False, then the test of self.thread                       *)
StopMonitoring ==
    /\ cpc = "idle"
    /\ running' = FALSE
    /\ cpc' = IF thread # NoLoop THEN "joining" ELSE "idle"
    /\ UNCHANGED << rkind, thread, last_data, callbacks, observed >>
    /\ UNCHANGED loopVars
    /\ UNCHANGED << serverVars, gateVars, workerVars, busVars >>
    /\ UNCHANGED fileVars
    /\ UNCHANGED appVars
    /\ UNCHANGED configVars

(* Variant: stop_monitoring returns without waiting for the thread. *)
StopJoinNoWait ==
    /\ cpc = "joining"
    /\ cpc' = "idle"
    /\ UNCHANGED << rkind, running, thread, last_data, callbacks, observed >>
    /\ UNCHANGED loopVars
    /\ UNCHANGED << serverVars, gateVars, workerVars, busVars >>
    /\ UNCHANGED fileVars
    /\ UNCHANGED appVars
    /\ UNCHANGED configVars

(* self.thread.join() returns: the thread has ended (data_reader.py:85,     *)
(* mongodb_reader.py:159)                                                   *)
StopJoin ==
    /\ cpc = "joining"
    /\ lpc[thread] = "done"
    /\ cpc' = "idle"
    /\ UNCHANGED << rkind, running, thread, last_data, callbacks, observed >>
    /\ UNCHANGED loopVars
    /\ UNCHANGED << serverVars, gateVars, workerVars, busVars >>
    /\ UNCHANGED fileVars
    /\ UNCHANGED appVars
    /\ UNCHANGED configVars

(* A reader of either kind as the application uses it (botibot_main.py:     *)
(* 228-258): the UI thread starts a reader that is not running, stops it,   *)
(* and registers and removes observers at any time.                         *)
InitPoll ==
    /\ InitServer
    /\ FileInit(NoFile)
    /\ AppInit
    /\ ConfigInit
    /\ \E kind \in ReaderKinds : PollInit(kind)

NextPoll ==
    \/ \E o \in Observers : AddCallback(o)
    \/ \E o \in Observers : RemoveCallback(o)
    \/ (~running /\ \E c \in BOOLEAN : StartMonitoring(c))
    \/ StopMonitoring
    \/ StopJoin
    \/ \E l \in LoopThreads : LoopStep(l)

SpecPoll == InitPoll /\ [][NextPoll]_vars

(* A reader under any sequence of calls of the UI thread: start_monitoring  *)
(* is called whether or not the reader is running.                          *)
NextCalls ==
    \/ \E o \in Observers : AddCallback(o)
    \/ \E o \in Observers : RemoveCallback(o)
    \/ \E c \in BOOLEAN : StartMonitoring(c)
    \/ StopMonitoring
    \/ StopJoin
    \/ \E l \in LoopThreads : LoopStep(l)

SpecCalls == InitPoll /\ [][NextCalls]_vars

---------------------------------------------------------------------------
(* Reading the polled file: json.load of the whole text in                  *)
(* DataReader.get_sensor_data, and the brace-counting reader that           *)
(* MainScreen._get_latest_mqtt_data and MainScreen.refresh_mqtt_data each   *)
(* carry a copy of.                                                         *)

Members == { "a", "b" }

RECURSIVE Concat(_)
Concat(ls) == IF ls = << >> THEN << >> ELSE Head(ls) \o Concat(Tail(ls))

(* json.loads(text) succeeds: the text is one JSON object, empty or with    *)
(* one member.  Text after the object ("Extra data"), a missing brace and   *)
(* text that is no member all raise JSONDecodeError.                        *)
JsonValid(text) ==
    \/ text = << "{", "}" >>
    \/ Len(text) = 3 /\ text[1] = "{" /\ text[2] \in Members /\ text[3] = "}"

JsonDoc(text) == IF Len(text) = 2 THEN EmptyDoc ELSE text[2]

(* the change of brace_count over a line: +1 for "{", -1 for "}" *)
Balance(line) ==
    Cardinality({ i \in 1 .. Len(line) : line[i] = "{" }) -
    Cardinality({ i \in 1 .. Len(line) : line[i] = "}" })

ScanStart == [ current_json |-> << >>, brace_count |-> 0, json_lines |-> << >> ]

(* the body of the loop over the lines *)
ScanLine(st, line) ==
    LET cur   == st.current_json \o line
        count == st.brace_count + Balance(line)
    IN  IF count = 0 /\ cur # << >>
        THEN IF JsonValid(cur)
             THEN [ current_json |-> << >>, brace_count |-> count,
                    json_lines |-> Append(st.json_lines, cur) ]
             ELSE [ current_json |-> << >>, brace_count |-> 0,
                    json_lines |-> st.json_lines ]
        ELSE [ current_json |-> cur, brace_count |-> count,
               json_lines |-> st.json_lines ]

RECURSIVE Scan(_, _)
Scan(st, ls) == IF ls = << >> THEN st ELSE Scan(ScanLine(st, Head(ls)), Tail(ls))

(* The document the brace-counting reader finds, None when it finds none:   *)
(* no file, an empty file, or no text that parsed.                          *)
BraceCountingRead(f) ==
    IF ~f.exists \/ f.lines = << >>
    THEN None
    ELSE LET json_lines == Scan(ScanStart, f.lines).json_lines
         IN  IF json_lines # << >>
             THEN JsonDoc(json_lines[Len(json_lines)])
             ELSE None

(* get_sensor_data reads the file: which branch it takes and the document *)
FileOutcome(f) ==
    IF ~f.exists THEN "missing"
    ELSE IF JsonValid(Concat(f.lines)) THEN "doc" ELSE "parse_error"

FileDoc(f) == IF FileOutcome(f) = "doc" THEN JsonDoc(Concat(f.lines)) ELSE None

GetSensorData ==
    /\ got_sensor' = ReadResult("file", FileOutcome(file), FileDoc(file), last_data)
    /\ UNCHANGED << file, last_mqtt_data, refreshed, got_latest >>
    /\ UNCHANGED << serverVars, gateVars, workerVars, busVars, pollVars, appVars, configVars >>

GetLatestMqttData ==
    /\ got_latest' = BraceCountingRead(file)
    /\ UNCHANGED << file, last_mqtt_data, refreshed, got_sensor >>
    /\ UNCHANGED << serverVars, gateVars, workerVars, busVars, pollVars, appVars, configVars >>

RefreshMqttData ==
    LET current_mqtt_data == BraceCountingRead(file)
    IN  /\ refreshed' = TRUE
        /\ last_mqtt_data' = IF current_mqtt_data # None /\ current_mqtt_data # last_mqtt_data
                             THEN current_mqtt_data
                             ELSE last_mqtt_data
        /\ UNCHANGED << file, got_latest, got_sensor >>
        /\ UNCHANGED << serverVars, gateVars, workerVars, busVars, pollVars, appVars, configVars >>

InitFile ==
    /\ InitServer
    /\ PollInit("file")
    /\ \E f \in Files : FileInit(f)
    /\ AppInit
    /\ ConfigInit

NextFile ==
    \/ GetSensorData
    \/ GetLatestMqttData
    \/ RefreshMqttData

SpecFile == InitFile /\ [][NextFile]_vars

---------------------------------------------------------------------------
(* The classifiers of the display: the status shown for a heart rate or a   *)
(* temperature, values in tenths as in Rows.                                *)

(* MainScreen._format_mqtt_data (screens.py:1055-1092), a value that is a   *)
(* number                                                                   *)
FormatMqttData(sensor, v) ==
    IF sensor = "bpm"
    THEN IF 600 <= v /\ v <= 1000 THEN "Normal"
         ELSE IF v < 600 THEN "Low" ELSE "High"
    ELSE IF 361 <= v /\ v <= 375 THEN "Normal"
         ELSE IF v < 361 THEN "Low" ELSE "Fever"

(* MongoDBReader._get_heart_rate_status and _get_temp_status                *)
(* (mongodb_reader.py:86-109)                                               *)
StatusHelper(sensor, v) ==
    IF sensor = "bpm"
    THEN IF v < 600 THEN "Low" ELSE IF v > 1000 THEN "High" ELSE "Normal"
    ELSE IF v < 360 THEN "Low" ELSE IF v > 375 THEN "High" ELSE "Normal"

(* DataReader.get_formatted_data (data_reader.py:114 and 122); a value of 0 *)
(* is false in `bpm and ...` and `temp_c and ...`                           *)
GetFormattedData(sensor, v) ==
    IF sensor = "bpm"
    THEN IF v # 0 /\ v <= 1000 THEN "Normal"
         ELSE IF v # 0 /\ v > 1000 THEN "High" ELSE "Unknown"
    ELSE IF v # 0 /\ 361 <= v /\ v <= 375 THEN "Normal"
         ELSE IF v # 0 THEN "Abnormal" ELSE "Unknown"

DisplayStatus(c, sensor, v) ==
    CASE c = "MainScreen" -> FormatMqttData(sensor, v)
      [] c = "MongoDBReader" -> StatusHelper(sensor, v)
      [] c = "DataReader" -> GetFormattedData(sensor, v)

---------------------------------------------------------------------------
(* MongoDBReader.get_latest_data (mongodb_reader.py:36-71): the record      *)
(* find_one returns is converted field by field.  A formatted document is   *)
(* named "a" or "b" in the polling model; the records behind the two names  *)
(* are one that has every field and one that has a heart rate only.         *)
(* Temperature and heart rate are in tenths, alcohol in hundredths.         *)

StoreRecord(d) ==
    IF d = "a"
    THEN [ temperature |-> 366, pulse_rate |-> 720, alcohol_percentage |-> 0 ]
    ELSE [ pulse_rate |-> 1010 ]

(* latest.get(key, default) *)
RecGet(r, k, default) == IF k \in DOMAIN r THEN r[k] ELSE default

(* _get_alcohol_status (mongodb_reader.py:118-127) *)
AlcoholStatus(v) ==
    IF v > 8 THEN "High" ELSE IF v > 5 THEN "Moderate" ELSE IF v > 0 THEN "Low" ELSE "None"

(* formatted_data, lines 46-65, without the units and the colours *)
FormatLatest(r) ==
    [ temperature |->
        [ value |-> RecGet(r, "temperature", 0),
          status |-> StatusHelper("temp", RecGet(r, "temperature", 0)) ],
      heart_rate |->
        [ value |-> RecGet(r, "pulse_rate", 0),
          status |-> StatusHelper("bpm", RecGet(r, "pulse_rate", 0)) ],
      alcohol |->
        [ value |-> RecGet(r, "alcohol_percentage", 0),
          status |-> AlcoholStatus(RecGet(r, "alcohol_percentage", 0)) ] ]

---------------------------------------------------------------------------
(* Login and logout: the construction and the cleanup of a MainScreen.      *)
(* Every step is a handler of the Tk main loop or a fan-out of a reader.    *)

ScreenDocs == { "a", "b" }

(* on_authentication_complete -> show_main_screen (botibot_main.py:190-217) *)
(* constructs a MainScreen (screens.py:294-312): create_screen adds the     *)
(* display component, whose __init__ registers its update_display with the  *)
(* store reader (mongodb_components.py:117-124), and loads the document d   *)
(* (screens.py:690-697); then the screen registers update_sensor_data with  *)
(* the file reader (screens.py:308-309) and calls start_auto_refresh        *)
(* (screens.py:312, 583-587), which schedules itself with after(2000).      *)
ShowMainScreen(d) ==
    /\ current_screen = NoMainScreen
    /\ made < MaxLogins
    /\ LET s == made + 1
       IN  /\ made' = s
           /\ current_screen' = s
           /\ reader_callbacks' = [ kind \in ReaderKinds |->
                                      Append(reader_callbacks[kind], s) ]
           /\ after_jobs' = after_jobs \cup { s }
           /\ screen_doc' = [ screen_doc EXCEPT ![s].cards = d ]
    /\ UNCHANGED << serverVars, gateVars, workerVars, busVars, pollVars, fileVars >>
    /\ UNCHANGED configVars

(* DataReader.remove_callback (data_reader.py:22-25) *)
RemoveIfPresent(seq, o) ==
    IF \E j \in 1 .. Len(seq) : seq[j] = o THEN Without(seq, o) ELSE seq

(* MainScreen.cleanup (screens.py:1222-1229): the observer of the file      *)
(* reader is removed; for the store reader the method does nothing, and     *)
(* nothing cancels the after job.                                           *)
Cleanup(s) ==
    /\ reader_callbacks' = [ reader_callbacks EXCEPT
                               !["file"] = RemoveIfPresent(@, s) ]
    /\ UNCHANGED after_jobs

(* handle_logout -> show_facial_recognition -> cleanup_current_screen       *)
(* (botibot_main.py:285-294, 181-188, 219-226): the cleanup of the screen,  *)
(* the destruction of the widgets of the root window, and the facial        *)
(* recognition screen.                                                      *)
HandleLogout ==
    /\ current_screen # NoMainScreen
    /\ Cleanup(current_screen)
    /\ current_screen' = NoMainScreen
    /\ UNCHANGED << made, screen_doc >>
    /\ UNCHANGED << serverVars, gateVars, workerVars, busVars, pollVars, fileVars >>
    /\ UNCHANGED configVars

(* start_auto_refresh (screens.py:583-587) run by the Tk main loop for the  *)
(* screen object s: refresh_mqtt_data takes the document d of the file      *)
(* (screens.py:651-655; it catches every exception), and the method         *)
(* schedules itself again on the root window.                               *)
StartAutoRefresh(s, d) ==
    /\ s \in after_jobs
    /\ screen_doc' = [ screen_doc EXCEPT ![s].cards = d ]
    /\ UNCHANGED << current_screen, made, reader_callbacks, after_jobs >>
    /\ UNCHANGED << serverVars, gateVars, workerVars, busVars, pollVars, fileVars >>
    /\ UNCHANGED configVars

(* The part of a MainScreen an observer of the reader of the kind updates:  *)
(* update_sensor_data the sensor cards (screens.py:993-1029),               *)
(* update_display the cards of the store display                            *)
(* (mongodb_components.py:169-181).                                         *)
Taken(kind, doc, d) ==
    IF kind = "file" THEN [ doc EXCEPT !.cards = d ] ELSE [ doc EXCEPT !.display = d ]

(* The fan-out of a change d by the reader of the kind (data_reader.py:     *)
(* 95-99, mongodb_reader.py:173-177): each registered screen takes d.       *)
ReaderFanOut(kind, d) ==
    /\ reader_callbacks[kind] # << >>
    /\ screen_doc' = [ s \in MainScreens |->
                         IF \E j \in 1 .. Len(reader_callbacks[kind]) :
                                reader_callbacks[kind][j] = s
                         THEN Taken(kind, screen_doc[s], d) ELSE screen_doc[s] ]
    /\ UNCHANGED << current_screen, made, reader_callbacks, after_jobs >>
    /\ UNCHANGED << serverVars, gateVars, workerVars, busVars, pollVars, fileVars >>
    /\ UNCHANGED configVars

NextApp ==
    \/ \E d \in ScreenDocs : ShowMainScreen(d)
    \/ HandleLogout
    \/ \E s \in MainScreens, d \in ScreenDocs : StartAutoRefresh(s, d)
    \/ \E kind \in ReaderKinds, d \in ScreenDocs : ReaderFanOut(kind, d)

SpecApp == Init /\ [][NextApp]_vars

---------------------------------------------------------------------------
(* BotiBotConfig: get, set, toggle_kiosk_mode, load_config and              *)
(* reset_to_defaults                                                        *)

(* Key paths in dot notation, as sequences of keys *)
KeyPaths ==
    { << "window", "kiosk_mode" >>, << "window", "width" >>,
      << "data", "update_interval" >>, << "data", "auto_start_monitoring" >>,
      << "theme" >> }

(* The values set() is called with *)
PathValues(path) ==
    CASE path = << "window", "kiosk_mode" >> -> { "False", "True" }
      [] path = << "window", "width" >> -> { "800", "1024", "1280" }
      [] path = << "data", "update_interval" >> -> { "1.0", "0.5" }
      [] path = << "data", "auto_start_monitoring" >> -> { "True", "False" }
      [] OTHER -> { "dark" }

(* get (config.py:104-114) for a path to a scalar: the value, or the        *)
(* default None when a key is missing or what is indexed is not a dict      *)
GetIn(top, nested, path) ==
    IF Len(path) = 1
    THEN IF top[path[1]].kind = "val" THEN top[path[1]].at ELSE None
    ELSE IF top[path[1]].kind = "ref"
         THEN nested[top[path[1]].at][path[2]]
         ELSE None

ConfigGet(path) == GetIn(config, DEFAULT_CONFIG, path)

(* set (config.py:116-128): the loop walks from self.config to the parent   *)
(* dict of the last key and the assignment is made in that dict, which for  *)
(* a key of a section is the nested dict the reference names.               *)
SetIn(path, value) ==
    IF Len(path) = 1
    THEN /\ config' = [ config EXCEPT ![path[1]] = Scalar(value) ]
         /\ UNCHANGED DEFAULT_CONFIG
    ELSE /\ config[path[1]].kind = "ref"
         /\ DEFAULT_CONFIG' =
                [ DEFAULT_CONFIG EXCEPT ![config[path[1]].at][path[2]] = value ]
         /\ UNCHANGED config

ConfigSet(path, value) ==
    /\ SetIn(path, value)
    /\ called' = "set"
    /\ UNCHANGED << serverVars, gateVars, workerVars, busVars, pollVars, fileVars >>
    /\ UNCHANGED appVars

(* toggle_kiosk_mode (config.py:130-135) *)
ToggleKioskMode ==
    /\ LET current == ConfigGet(<< "window", "kiosk_mode" >>)
       IN  SetIn(<< "window", "kiosk_mode" >>, IF current = "True" THEN "False" ELSE "True")
    /\ called' = "toggle_kiosk_mode"
    /\ UNCHANGED << serverVars, gateVars, workerVars, busVars, pollVars, fileVars >>
    /\ UNCHANGED appVars

(* What json.load returns for the configuration file (config.py:77): a dict *)
(* whose values are dicts of scalars, or scalars.                           *)
SavedConfigs ==
    { [ top |-> [ k \in TopKeys |-> Absent ],
        nested |-> [ window |-> [ width |-> "1024" ] ] ],
      [ top |-> [ k \in TopKeys |-> Absent ],
        nested |-> [ window |-> [ kiosk_mode |-> "True" ],
                     data |-> [ update_interval |-> "0.5" ] ] ],
      [ top |-> [ k \in TopKeys |-> IF k = "theme" THEN Scalar("dark") ELSE Absent ],
        nested |-> [ data |-> [ auto_start_monitoring |-> "False" ] ] ] }

(* _deep_merge (config.py:96-102) of a saved dict into self.config: a dict  *)
(* under a key whose value in the base is a dict is merged into that dict,  *)
(* key by key; any other value is assigned to the key of the base.          *)
DeepMerge(saved) ==
    /\ config' = [ k \in TopKeys |->
                     IF saved.top[k].kind = "val" THEN saved.top[k] ELSE config[k] ]
    /\ DEFAULT_CONFIG' =
          [ sec \in Sections |->
              IF sec \in DOMAIN saved.nested /\ config[sec].kind = "ref"
              THEN [ k \in DOMAIN DEFAULT_CONFIG[sec] |->
                       IF k \in DOMAIN saved.nested[sec]
                       THEN saved.nested[sec][k]
                       ELSE DEFAULT_CONFIG[sec][k] ]
              ELSE DEFAULT_CONFIG[sec] ]

(* load_config (config.py:72-85) with a file that exists *)
LoadConfig(saved) ==
    /\ DeepMerge(saved)
    /\ called' = "load_config"
    /\ UNCHANGED << serverVars, gateVars, workerVars, busVars, pollVars, fileVars >>
    /\ UNCHANGED appVars

(* reset_to_defaults (config.py:180-184) *)
ResetToDefaults ==
    /\ config' = ShallowCopy(DefaultTop)
    /\ called' = "reset_to_defaults"
    /\ UNCHANGED DEFAULT_CONFIG
    /\ UNCHANGED << serverVars, gateVars, workerVars, busVars, pollVars, fileVars >>
    /\ UNCHANGED appVars

NextConfig ==
    \/ \E path \in KeyPaths : \E value \in PathValues(path) : ConfigSet(path, value)
    \/ ToggleKioskMode
    \/ \E saved \in SavedConfigs : LoadConfig(saved)
    \/ ResetToDefaults

SpecConfig == Init /\ [][NextConfig]_vars

---------------------------------------------------------------------------
(* Properties *)

HoldingPcs == { "locked", "playing", "finally", "release" }

(* The worker got the lock: its action runs, or has run. *)
Started(w) == wpc[w] \in HoldingPcs \cup { "done" }

(* Number of threads inside a call of the audio player. *)
InPlayer ==
    Cardinality({ w \in Workers : wpc[w] = "playing" }) +
    Cardinality({ t \in { HttpThread } : tpc[t] = "testing" })

(* C1: at most one audio playback is executing at any time, counting the    *)
(* workers of play_audio_threaded and the /api/audio/test route.            *)
C1_OnePlayback == InPlayer <= 1

C4_Released ==
    /\ audio_lock # NoWorker => wpc[audio_lock] \in HoldingPcs
    /\ \A w \in Workers :
          wpc[w] = "done" => wout[w] \in Outcomes /\ audio_lock # w
    /\ ( \A w \in Workers : wpc[w] \notin HoldingPcs ) => ~ audio_playing

C4_Witness ==
    \E w \in Workers : \E u \in Workers :
        wpc[w] = "done" /\ wout[w] = "raise" /\ wpc[u] = "playing"

(* C5: a gate call that follows a call of the same alert type that returned *)
(* True returns False when less than the cooldown lies between the two and  *)
(* True when at least the cooldown does; a call of a type that was never    *)
(* stamped returns True.                                                    *)
C5_Cooldown ==
    \A t \in Threads :
        tpc[t] = "gate_ret" =>
            /\ prevTrue[talert[t]] # Never =>
                  ( tres[t] <=> ttime[t] - prevTrue[talert[t]] >= AUDIO_COOLDOWN )
            /\ ~ tres[t] => last_audio_alerts[talert[t]] # 0

C5_Witness ==
    \E t \in Threads :
        /\ tpc[t] = "gate_ret"
        /\ prevTrue[talert[t]] # Never
        /\ ttime[t] - prevTrue[talert[t]] = AUDIO_COOLDOWN
        /\ tres[t]

(* C6: of two calls of the gate on the same alert type with the same        *)
(* current time, at most one returns True.                                  *)
C6_OneWinner ==
    \A c \in Callers : \A d \in Callers :
        ( /\ c # d
          /\ tpc[c] = "gate_ret" /\ tpc[d] = "gate_ret"
          /\ talert[c] = talert[d]
          /\ ttime[c] = ttime[d] )
        => ~ ( tres[c] /\ tres[d] )

(* C7: a gate call that returns False leaves last_audio_alerts as it is; a  *)
(* call that returns True sets the entry of its alert type to its current   *)
(* time and leaves every other entry; nothing else changes the table.       *)
C7_Frame ==
    [][ /\ \A t \in Threads :
              ( tpc[t] = "gate_check" /\ tpc'[t] = "gate_ret" ) =>
                  ( ~ tres'[t] /\ last_audio_alerts' = last_audio_alerts )
        /\ \A t \in Threads :
              ( tpc[t] = "gate_write" /\ tpc'[t] = "gate_ret" ) =>
                  /\ tres'[t]
                  /\ last_audio_alerts' =
                        [ last_audio_alerts EXCEPT ![talert[t]] = ttime[t] ]
        /\ last_audio_alerts' # last_audio_alerts =>
              \E t \in Threads : tpc[t] = "gate_write" /\ tpc'[t] = "gate_ret"
      ]_vars

C7_Witness ==
    \E t \in Threads :
        /\ tpc[t] = "gate_ret"
        /\ tres[t]
        /\ last_audio_alerts[talert[t]] = ttime[t]
        /\ \E k \in AlertTypes \ { talert[t] } :
              last_audio_alerts[k] # 0 /\ last_audio_alerts[k] < ttime[t]

(* C8: no entry of last_audio_alerts ever decreases. *)
C8_Monotonic ==
    [][ \A k \in AlertTypes : last_audio_alerts'[k] >= last_audio_alerts[k] ]_vars

GatePcs == { "gate_time", "gate_check", "gate_write", "gate_ret" }

C8_Witness ==
    /\ tpc[MqttThread] \in GatePcs
    /\ tpc[MainThread] \in GatePcs
    /\ \E k \in AlertTypes : last_audio_alerts[k] >= StartTime + AUDIO_COOLDOWN

(* The threshold table of the evaluator, values in tenths; the first row    *)
(* that matches decides.                                                    *)
TableAlert(sensor, present, v) ==
    IF ~ present THEN {}
    ELSE CASE sensor = "temp" ->
                IF v >= 375 THEN { "high_temp" }
                ELSE IF v <= 350 THEN { "low_temp" } ELSE {}
           [] sensor = "bpm" ->
                IF v >= 1000 THEN { "high_bpm" }
                ELSE IF 0 < v /\ v <= 600 THEN { "low_bpm" }
                ELSE IF 600 <= v /\ v < 1000 THEN { "normal_bpm" } ELSE {}
           [] sensor = "alcohol" -> IF v >= 1 THEN { "alcohol" } ELSE {}
           [] sensor = "motion" -> IF v >= 50 \/ v <= -50 THEN { "motion" } ELSE {}
           [] OTHER -> {}

(* C9: from the initial state (every cooldown idle) a call of               *)
(* check_and_play_audio_alerts fires exactly the alert type of the table    *)
(* and starts one worker for it, and fires nothing and starts no worker     *)
(* when the table has none or the value is None.                            *)
C9_Table ==
    LET req == treq[EvalCaller]
    IN  /\ tpc[EvalCaller] \in { "dispatch", "returned" } =>
              tfired[EvalCaller] = TableAlert(req.sensor, req.present, req.value)
        /\ tpc[EvalCaller] = "returned" =>
              Cardinality({ w \in Workers : wpc[w] = "spawned" })
                  = Cardinality(tfired[EvalCaller])

C9_Witness ==
    /\ tpc[EvalCaller] = "returned"
    /\ treq[EvalCaller].sensor = "bpm"
    /\ treq[EvalCaller].value = 600
    /\ tfired[EvalCaller] = { "low_bpm" }

(* C10: a call of check_and_play_audio_alerts fires at most one alert type, *)
(* and for a heart rate of exactly 60 it never fires normal_bpm.            *)
C10_Sixty ==
    \A t \in Threads :
        /\ Cardinality(tfired[t]) <= 1
        /\ ( treq[t].sensor = "bpm" /\ treq[t].value = 600 ) =>
              "normal_bpm" \notin tfired[t]

---------------------------------------------------------------------------
(* Properties of on_message *)

StructuredTopics == { "temp", "alcohol" }

CanonicalKeys(topic) ==
    CASE topic = "temp" -> { "temp", "temperature" }
      [] topic = "alcohol" -> { "alcohol_level", "alcohol" }
      [] OTHER -> {}

CanonicalFields(topic, p) ==
    { i \in 1 .. Len(p.fields) : p.fields[i].key \in CanonicalKeys(topic) }

NumericFields(p) == { i \in 1 .. Len(p.fields) : p.fields[i].numeric }

(* The step is a call of on_message: it starts from a thread that is not in *)
(* a handler, and the message, the position or the document differs after. *)
Received ==
    /\ Ready(MqttThread)
    /\ << msg, tpc[MqttThread], sensor_data >>' # << msg, tpc[MqttThread], sensor_data >>

(* The evaluator was called with the value v of sensor s for the last       *)
(* message.                                                                 *)
Evaluated(s, v) ==
    /\ tctx[MqttThread] = "eval"
    /\ treq[MqttThread].sensor = s
    /\ treq[MqttThread].present
    /\ treq[MqttThread].value = v

(* C11: on a topic with a structured payload the reading stored for an      *)
(* object follows the order of resolution: with a recognised key whose      *)
(* value is a number the entry is the value of a recognised key; with no    *)
(* recognised key and some numeric field the entry is the value of the      *)
(* first numeric field; and a step that changes the entry for a payload     *)
(* that is not an object stores the scalar the payload parses to.           *)
C11_Order ==
    [][ LET t == msg'.topic
            p == msg'.payload
            can == CanonicalFields(t, p)
            num == NumericFields(p)
        IN  (Received /\ t \in StructuredTopics) =>
              /\ (p.kind = "object" /\ can \cap num # {}) =>
                    \E i \in can \cap num : sensor_data'[t] = p.fields[i].val
              /\ (p.kind = "object" /\ can # {} /\ can \cap num = {}) =>
                    sensor_data'[t] = sensor_data[t]
              /\ (p.kind = "object" /\ can = {} /\ num # {}) =>
                    sensor_data'[t] =
                      p.fields[CHOOSE i \in num : \A j \in num : i <= j].val
              /\ (p.kind # "object" /\ sensor_data'[t] # sensor_data[t]) =>
                    sensor_data'[t] = p.val
      ]_vars

(* C12: after a message whose payload is a numeric JSON literal on a topic  *)
(* with a structured payload, the entry of the topic is the literal's value *)
(* and the evaluator was called with it.                                    *)
C12_Literal ==
    (msg.topic \in StructuredTopics /\ msg.payload.kind = "number") =>
        /\ sensor_data[msg.topic] = msg.payload.val
        /\ Evaluated(msg.topic, msg.payload.val)

(* An object none of whose fields float accepts *)
NoNumericField(p) == p.kind = "object" /\ NumericFields(p) = {}

C14_Frame ==
    [][ /\ \A k \in DocumentKeys :
             sensor_data'[k] # sensor_data[k] => (Received /\ msg'.topic = k)
        /\ (Received /\ msg'.topic \notin DocumentKeys) =>
             /\ sensor_data' = sensor_data
             /\ last_audio_alerts' = last_audio_alerts
             /\ tpc'[MqttThread] = "returned"
      ]_vars

(* A message on the distance topic was stored while the entries of temp and *)
(* of alcohol hold what earlier messages stored.                            *)
C14_Witness ==
    /\ msg.topic = "distance"
    /\ sensor_data["distance"] = 120
    /\ sensor_data["temp"] = 376
    /\ sensor_data["alcohol"] = 5
    /\ sensor_data["bpm"] = 0

(* C16: when the message handled last arrives again on the temp topic, the  *)
(* value being the one already stored, the evaluator is not called for it.  *)
C16_SecondUnchanged ==
    [][ (Received /\ msg' = msg /\ msg.topic = "temp"
           /\ sensor_data["temp"] = 376 /\ sensor_data' = sensor_data) =>
          tpc'[MqttThread] # "eval_entry"
      ]_vars

---------------------------------------------------------------------------
(* Properties of the polling readers *)

(* The step is the comparison of loop thread l. *)
Compares(l) == lpc[l] = "compare" /\ lpc'[l] # "compare"

(* C15: the first document a reader observes is reported as changed (it     *)
(* becomes the last-accepted document and the fan-out begins), whatever the *)
(* document is; and a document equal to the last-accepted one is not        *)
(* reported.                                                                *)
C15_FirstChanged ==
    [][ \A l \in LoopThreads :
          Compares(l) =>
            /\ (lkind[l] = "doc" /\ ~observed) =>
                 (lpc'[l] = "fanout" /\ last_data' = lcur[l])
            /\ (lcur[l] = last_data) =>
                 (lpc'[l] = "sleep" /\ last_data' = last_data)
      ]_vars

(* Reads that fail *)
FailedReads == { "parse_error", "vanished", "io_error", "empty_result", "query_error" }

(* C17: a cycle whose read failed keeps the last-accepted document, calls   *)
(* no observer and goes on to the sleep and the next test of the loop; and  *)
(* a loop thread ends only at the test of the while loop, with              *)
(* self.running cleared.                                                    *)
C17_FailedRead ==
    [][ \A l \in LoopThreads :
          /\ (lpc[l] = "read" /\ lpc'[l] # "read" /\ lkind'[l] \in FailedReads) =>
               (last_data' = last_data /\ lpc'[l] \in { "compare", "sleep" })
          /\ (Compares(l) /\ lkind[l] \in FailedReads) =>
               (last_data' = last_data /\ lpc'[l] = "sleep" /\ lcalled'[l] = << >>)
          /\ (lpc[l] = "sleep" /\ lpc'[l] # "sleep") => lpc'[l] = "test"
          /\ (lpc'[l] = "done" /\ lpc[l] # "done") => (lpc[l] = "test" /\ ~running)
      ]_vars

(* The document "a" was accepted, an observer is registered, and a later    *)
(* cycle whose read failed to parse has come to its sleep.                  *)
C17_Witness ==
    \E l \in LoopThreads :
        /\ lpc[l] = "sleep"
        /\ lkind[l] = "parse_error"
        /\ last_data = "a"
        /\ callbacks # << >>
        /\ running

(* C19: in a fan-out every step of the for loop calls the next element of   *)
(* self.callbacks with the changed document, whether or not an earlier      *)
(* callback raised, and the loop thread goes on to its sleep after the last *)
(* one; when the list was not changed during the fan-out, the observers     *)
(* called are the registered ones, in the order of registration.            *)
C19_FanOut ==
    [][ \A l \in LoopThreads :
          (lpc[l] = "fanout" /\ << lpc[l], lidx[l] >>' # << lpc[l], lidx[l] >>) =>
            IF lidx[l] < Len(callbacks)
            THEN /\ lpc'[l] = "fanout"
                 /\ lidx'[l] = lidx[l] + 1
                 /\ Len(lcalled'[l]) = Len(lcalled[l]) + 1
                 /\ lcalled'[l][Len(lcalled'[l])].obs = callbacks[lidx[l] + 1]
                 /\ lcalled'[l][Len(lcalled'[l])].doc = last_data
            ELSE /\ lpc'[l] = "sleep"
                 /\ lstable[l] =>
                      [ i \in 1 .. Len(lcalled[l]) |-> lcalled[l][i].obs ] = callbacks
      ]_vars

(* The first of two observers raised and the second was called after it. *)
C19_Witness ==
    \E l \in LoopThreads :
        /\ lpc[l] = "sleep"
        /\ lstable[l]
        /\ Len(lcalled[l]) = 2
        /\ lcalled[l][1].raised
        /\ lcalled[l][1].obs # lcalled[l][2].obs

(* The loop threads and the return of join are scheduled: a read and a      *)
(* callback end, and a thread that can run does.                            *)
SpecPollFair ==
    /\ InitPoll
    /\ [][NextPoll]_vars
    /\ \A l \in LoopThreads : WF_vars(LoopStep(l))
    /\ WF_vars(StopJoin)

(* C20: when stop_monitoring has returned and the reader was not started    *)
(* again, no loop thread is alive, so that no read and no call of an        *)
(* observer follows; a loop thread ends only at the test of the while loop, *)
(* after the iteration it was in; and stop_monitoring does return.          *)
C20_StopJoins ==
    /\ []((cpc = "idle" /\ ~running) => LiveLoops = {})
    /\ [][ \A l \in LoopThreads :
             (lpc'[l] = "done" /\ lpc[l] # "done") => lpc[l] = "test" ]_vars
    /\ ((cpc = "joining") ~> (cpc = "idle"))

(* stop_monitoring waits while the loop thread is in a fan-out. *)
C20_Witness ==
    /\ cpc = "joining"
    /\ lpc[thread] = "fanout"
    /\ Len(lcalled[thread]) > 0

---------------------------------------------------------------------------
(* Properties of the file readers *)

(* the file holds two objects one after the other, the first complete and  *)
(* the second with unbalanced braces                                        *)
TwoConcatenated(f) ==
    /\ f.exists
    /\ Len(f.lines) = 2
    /\ JsonValid(f.lines[1])
    /\ Balance(f.lines[2]) # 0

(* C18: when the polled file holds two concatenated JSON objects and the    *)
(* second is malformed (unbalanced braces), each of get_sensor_data,        *)
(* refresh_mqtt_data and _get_latest_mqtt_data yields the first object.     *)
C18_FirstObject ==
    TwoConcatenated(file) =>
        /\ got_sensor # Unread => got_sensor = JsonDoc(file.lines[1])
        /\ got_latest # Unread => got_latest = JsonDoc(file.lines[1])
        /\ refreshed => last_mqtt_data = JsonDoc(file.lines[1])

(* A line that holds one record: text that begins with the only opening     *)
(* brace of the line.  The record is well-formed when json.loads accepts    *)
(* it; otherwise it is incomplete (the closing brace is missing) or         *)
(* malformed.                                                               *)
IsRecord(line) ==
    /\ line[1] = "{"
    /\ Cardinality({ i \in 1 .. Len(line) : line[i] = "{" }) = 1

RecordPerLine(f) == f.exists /\ \A i \in 1 .. Len(f.lines) : IsRecord(f.lines[i])

WellFormed(f) == { i \in 1 .. Len(f.lines) : JsonValid(f.lines[i]) }

(* the document of the last well-formed record, None when there is none *)
MostRecent(f) ==
    IF WellFormed(f) = {} THEN None
    ELSE JsonDoc(f.lines[CHOOSE i \in WellFormed(f) : \A j \in WellFormed(f) : j <= i])

(* C21: for a file that is a sequence of records, well-formed or not, the   *)
(* brace-counting reader (_get_latest_mqtt_data, refresh_mqtt_data) gives   *)
(* the document of the most recent well-formed record, whatever records     *)
(* come before or after it, and gives none only when no record is           *)
(* well-formed.                                                             *)
C21_MostRecent ==
    RecordPerLine(file) =>
        /\ got_latest # Unread => got_latest = MostRecent(file)
        /\ refreshed => last_mqtt_data = MostRecent(file)

(* C22: when the file reader finds the file missing in a cycle that follows *)
(* an accepted document, the comparison of that cycle keeps the             *)
(* last-accepted document and goes to the sleep with no observer called.    *)
C22_MissingKept ==
    [][ \A l \in LoopThreads :
          ( /\ Compares(l)
            /\ rkind = "file"
            /\ lkind[l] = "missing"
            /\ last_data \in FileDocs \ { EmptyDoc } ) =>
               (last_data' = last_data /\ lpc'[l] = "sleep" /\ lcalled'[l] = << >>)
      ]_vars

---------------------------------------------------------------------------
(* Properties of on_message, continued *)

(* The handler finds no reading in the message: text that neither parser    *)
(* accepts, or an object with no numeric field.                             *)
FailedToParse(m) ==
    /\ m.topic \in StructuredTopics
    /\ (m.payload.kind = "text" \/ NoNumericField(m.payload))

(* A message that carries a reading in a form the handler of its topic      *)
(* reads: an object with a recognised key whose value is a number, or the   *)
(* text of a number.  The numeric JSON literal on the alcohol topic is not  *)
(* among them (see C12).                                                    *)
WellFormedReading(m) ==
    /\ m.topic \in StructuredTopics
    /\ \/ m.payload.kind = "plain"
       \/ m.payload.kind = "number" /\ m.topic = "temp"
       \/ /\ m.payload.kind = "object"
          /\ CanonicalFields(m.topic, m.payload) \cap NumericFields(m.payload) # {}

(* the values a well-formed message can be read as *)
ReadingsOf(m) ==
    IF m.payload.kind = "object"
    THEN { m.payload.fields[i].val :
             i \in CanonicalFields(m.topic, m.payload) \cap NumericFields(m.payload) }
    ELSE { m.payload.val }

---------------------------------------------------------------------------
(* Properties of the connection handlers *)

(* The step brings the MQTT thread, in on_connect, to its call of            *)
(* play_audio_threaded: the connectivity notification is dispatched.         *)
ConnectDispatch ==
    /\ tpc'[MqttThread] = "dispatch"
    /\ tctx'[MqttThread] = "connect"
    /\ tpc[MqttThread] # "dispatch"

(* C24: the connectivity notification is dispatched only after a call of    *)
(* the cooldown gate for it that returned True, after a failed connect as   *)
(* after a successful one, so that at least the cooldown lies between two   *)
(* dispatches.                                                              *)
C24_ConnectGated ==
    [][ ConnectDispatch =>
          /\ tpc[MqttThread] = "gate_ret"
          /\ talert[MqttThread] = "mqtt_connected"
          /\ tres[MqttThread]
      ]_vars

(* C25: no connection attempt that fails, the first connect of start_mqtt   *)
(* included, ends the loop of the subscriber: the MQTT thread never ends.   *)
C25_LoopGoesOn == tpc[MqttThread] # "ended"

---------------------------------------------------------------------------
(* Properties of the display *)

Classifiers == { "MainScreen", "MongoDBReader", "DataReader" }

HighClass == { "High", "Fever" }
LowClass  == { "Low" }

(* C26: for every heart rate and temperature of the range, each classifier  *)
(* of the display shows the high class exactly when the condition of the    *)
(* evaluator's high row holds and the low class exactly when the condition  *)
(* of its low row holds.                                                    *)
C26_DisplayAgrees ==
    LET req  == treq[EvalCaller]
        rows == Rows(req.sensor, req.value)
    IN  (req.present /\ req.sensor \in { "temp", "bpm" }) =>
          \A c \in Classifiers :
             /\ DisplayStatus(c, req.sensor, req.value) \in HighClass <=> rows[1].cond
             /\ DisplayStatus(c, req.sensor, req.value) \in LowClass <=> rows[2].cond

---------------------------------------------------------------------------
(* Properties of the documents that are reported *)

(* the field of the store record behind each entry of formatted_data *)
RecordField(entry) ==
    CASE entry = "temperature" -> "temperature"
      [] entry = "heart_rate" -> "pulse_rate"
      [] entry = "alcohol" -> "alcohol_percentage"

DerivedStatus == { "Low", "Normal", "High", "Moderate", "None" }

(* C27: in the document the store reader hands to its observers, an entry   *)
(* whose field the store record lacks does not carry the number 0 with a    *)
(* status derived from it.                                                  *)
C27_NoDataDistinct ==
    \A l \in LoopThreads :
        (rkind = "store" /\ lkind[l] = "doc" /\ lpc[l] \in { "compare", "fanout" }) =>
            LET r == StoreRecord(lcur[l])
                f == FormatLatest(r)
            IN  \A entry \in DOMAIN f :
                    RecordField(entry) \notin DOMAIN r =>
                        ~ (f[entry].value = 0 /\ f[entry].status \in DerivedStatus)

---------------------------------------------------------------------------
(* Properties of the polling readers, continued *)

(* C28: when the file reader reads a document that differs from the         *)
(* last-accepted one in its timestamp fields only, the comparison finds     *)
(* them equal: the last-accepted document stays and no fan-out begins.      *)
C28_TimestampsIgnored ==
    [][ \A l \in LoopThreads :
          ( /\ Compares(l)
            /\ rkind = "file"
            /\ lkind[l] = "doc"
            /\ Content(lcur[l]) = Content(last_data) ) =>
               (last_data' = last_data /\ lpc'[l] = "sleep")
      ]_vars

---------------------------------------------------------------------------
(* Properties of the gate together with the dispatcher *)

(* The worker issued last, while no action has ended since. *)
LastIssued == { w \in fresh : peers[w] = fresh \ { w } }

(* The last handler of the MQTT thread was admitted by the gate for the     *)
(* alert types of tfired, has stamped them and has made its call of         *)
(* play_audio_threaded.                                                     *)
MqttAdmitted ==
    /\ tpc[MqttThread] = "returned"
    /\ tctx[MqttThread] \in { "eval", "connect" }
    /\ tfired[MqttThread] # {}

(* C29: the worker started for an alert that the cooldown gate admitted is  *)
(* not dropped at the lock: no stamp is made for a cue that is never        *)
(* played.                                                                  *)
C29_AdmittedPlays ==
    MqttAdmitted =>
        \A w \in LastIssued :
            ~ ( /\ wdropped[w]
                /\ \A k \in tfired[MqttThread] : last_audio_alerts[k] = now )

---------------------------------------------------------------------------
(* Properties of audio_playing *)

LockHolders == { w \in Workers : wpc[w] \in HoldingPcs }

(* C30: audio_playing is set only while exactly one audio_task thread holds *)
(* audio_lock, between its assignment of the flag and its finally block;    *)
(* the lock is given up only by the thread that holds it, at its release;   *)
(* and the thread whose acquire failed ends with the lock and the flag as   *)
(* they were.                                                               *)
C30_PlayingUnderLock ==
    /\ [] ( audio_playing =>
              /\ audio_lock # NoWorker
              /\ LockHolders = { audio_lock }
              /\ wpc[audio_lock] \in { "playing", "finally" } )
    /\ [][ /\ (audio_lock # NoWorker /\ audio_lock' # audio_lock) =>
                 /\ audio_lock' = NoWorker
                 /\ wpc[audio_lock] = "release"
                 /\ wpc'[audio_lock] = "done"
           /\ \A w \in Workers :
                 (wpc'[w] # wpc[w] /\ (wdropped[w] \/ wdropped'[w])) =>
                     /\ audio_lock' = audio_lock
                     /\ audio_playing' = audio_playing
                     /\ wpc'[w] \in { "skipped", "free" }
         ]_vars

(* A worker holds the lock with audio_playing set while another worker,     *)
(* whose acquire failed, has returned.                                      *)
C30_Witness ==
    \E w \in Workers : \E u \in Workers :
        /\ audio_playing
        /\ audio_lock = w
        /\ wpc[w] = "playing"
        /\ wdropped[u]
        /\ wpc[u] = "skipped"

---------------------------------------------------------------------------
(* Properties of start_monitoring and stop_monitoring *)

(* C31: at most one monitor loop thread of the reader is alive at any time, *)
(* under any sequence of start_monitoring and stop_monitoring calls.        *)
C31_OneLoop == Cardinality(LiveLoops) <= 1

---------------------------------------------------------------------------
(* Properties of the fan-out of an accepted change *)

(* C32: observers are called with a document only in an iteration whose     *)
(* comparison found it different from the last-accepted one, and            *)
(* self.last_data is that document before the first observer runs and      *)
(* throughout the fan-out; each step of the for loop takes a further        *)
(* element of the list, and an iteration that reads the last-accepted       *)
(* document again calls nobody, whether or not an observer raised.          *)
C32_ChangeOnce ==
    /\ [](\A l \in LoopThreads : lpc[l] = "fanout" => last_data = lcur[l])
    /\ [][ \A l \in LoopThreads :
             /\ (lpc'[l] = "fanout" /\ lpc[l] # "fanout") =>
                  /\ lpc[l] = "compare"
                  /\ lcur[l] # last_data
                  /\ last_data' = lcur[l]
                  /\ lcalled'[l] = << >>
             /\ (lcalled'[l] # lcalled[l] /\ lcalled'[l] # << >>) =>
                  /\ lpc[l] = "fanout"
                  /\ lidx'[l] = lidx[l] + 1
                  /\ Len(lcalled'[l]) = Len(lcalled[l]) + 1
                  /\ lcalled'[l][Len(lcalled'[l])].doc = last_data
             /\ (Compares(l) /\ lcur[l] = last_data) =>
                  (lpc'[l] = "sleep" /\ lcalled'[l] = << >>)
      ]_vars

(* Every registered observer was called with the accepted document "a", one *)
(* of them raised, and self.last_data is "a".                               *)
C32_Witness ==
    \E l \in LoopThreads :
        /\ lpc[l] = "fanout"
        /\ callbacks # << >>
        /\ lidx[l] = Len(callbacks)
        /\ \E i \in 1 .. Len(lcalled[l]) : lcalled[l][i].raised
        /\ last_data = "a"

---------------------------------------------------------------------------
(* Properties of add_callback and remove_callback during a fan-out *)

(* The observers in self.callbacks *)
Registered == { callbacks[i] : i \in 1 .. Len(callbacks) }

(* The observers the for loop of loop thread l has still to take *)
Pending(l) == { callbacks[i] : i \in (lidx[l] + 1) .. Len(callbacks) }

(* Every observer of the list is registered once. *)
Distinct(seq) == \A i, j \in 1 .. Len(seq) : seq[i] = seq[j] => i = j

(* C33: when add_callback or remove_callback changes self.callbacks while   *)
(* a loop thread is in its fan-out (each observer registered once), an      *)
(* observer that is registered before and after the call and was still to   *)
(* be called is still to be called (none is skipped), one that was already  *)
(* called is not called again, and an observer that is called is a          *)
(* registered one.                                                          *)
C33_NoneSkipped ==
    [][ \A l \in LoopThreads :
          /\ ( /\ lpc[l] = "fanout"
               /\ callbacks' # callbacks
               /\ Distinct(callbacks) /\ Distinct(callbacks') ) =>
               \A p \in Registered \cap Registered' :
                   (p \in Pending(l)) <=> (p \in Pending(l)')
          /\ (lcalled'[l] # lcalled[l] /\ lcalled'[l] # << >>) =>
               lcalled'[l][Len(lcalled'[l])].obs \in Registered
      ]_vars

---------------------------------------------------------------------------
(* Properties of the screens *)

(* The MainScreen objects registered with the reader of the kind *)
ObserversOf(kind) ==
    { reader_callbacks[kind][j] : j \in 1 .. Len(reader_callbacks[kind]) }

(* C34: a MainScreen that was cleaned up has no observer left in the file   *)
(* reader or in the store reader and no refresh scheduled, so that after    *)
(* any number of logins and logouts only the screen shown has them, once    *)
(* per reader.                                                              *)
C34_CleanedUp ==
    /\ after_jobs \subseteq { current_screen }
    /\ \A kind \in ReaderKinds :
         /\ ObserversOf(kind) \subseteq { current_screen }
         /\ Len(reader_callbacks[kind]) <= 1

---------------------------------------------------------------------------
(* Properties of the configuration *)

(* The value the class body gives the key path, None for a path it does not *)
(* have                                                                     *)
OriginalDefault(path) == GetIn(DefaultTop, OriginalDefaults, path)

(* C35: after reset_to_defaults, get(k) is the value of the original        *)
(* DEFAULT_CONFIG for every key path k, nested keys included, whatever      *)
(* calls of set, toggle_kiosk_mode and load_config came before.             *)
C35_ResetRestores ==
    called = "reset_to_defaults" =>
        \A path \in KeyPaths : ConfigGet(path) = OriginalDefault(path)

===========================================================================
